---- MODULE Spec2Model ----
(***************************************************************************)
(* Model of the SDR streaming service (sdr-service/app): the IQ player,    *)
(* the signal mixer, the RTL-TCP dongle server and the stream loop that    *)
(* ties them together, with the wire side of the decode-service client.    *)
(*                                                                         *)
(* Conventions                                                             *)
(*   - Python None for a sample array is the one-element sequence <<-1>>;  *)
(*     sample identifiers are positive, so no array equals it.             *)
(*   - An IQ file is named by a number: path p in 1..MaxLen is an existing *)
(*     file of p samples, sample i (0-based) of it is p*10 + i; path 0 is  *)
(*     a path at which no file exists.                                     *)
(*   - jamming_power is kept in tenths (1 stands for 0.1).                 *)
(*   - A jammer sample is a symbolic 6-tuple <<kind, A, offset, fs, t, i>>.*)
(***************************************************************************)
EXTENDS Integers, Sequences, FiniteSets, TLC

\* ------------------------------------------------------------------ bounds
\* Longest IQ file, in samples.
MaxLen == 4
\* Largest chunk_size passed to get_chunk by an API caller.
MaxChunk == 4
\* chunk_size used by the stream loop (stands for the default 16384).
ChunkSize == 2
\* Number of chunks the stream loop reads before the model stops it.
MaxReads == 2
\* Number of command records a peer sends on one connection.
MaxCmds == 2
\* Longest chunk handed to the mixer by a caller of its API.
MaxMix == 2
\* Largest value the jammer's sample counter takes before the model stops
\* mixing.
MaxCount == 4

\* Number of steps into which the model divides the unit interval of a sample
\* component: the component value v stands for v / Scale.
Scale == 8

\* Longest bit sequence handed to the bit-level functions of clock_recovery.
MaxBits == 10

\* SSTV picture size in the model: MARTIN_M1_WIDTH stands for 320 pixels per
\* line and MARTIN_M1_HEIGHT for 256 lines.
MARTIN_M1_WIDTH == 3
MARTIN_M1_HEIGHT == 3
\* Audio samples per pixel (stands for int(12000 * 0.146 / 320) = 5) and per
\* second (stands for 12000).
SamplesPerPixel == 2
AUDIO_RATE == 2
\* Longest audio chunk of one decode_stream iteration, and the audio buffer
\* length at which the model stops feeding the SSTV decoder.
MaxAudio == 8
MaxBuffer == 36

\* Steps into which the model divides one dB of SNR.
SnrSteps == 2
\* Number of reconnects of the metrics analyzer the model follows.
MaxAttempts == 2

\* Longest sample array handed to the clock recovery, and the number of loop
\* iterations of one call the model follows.
MaxSamples == 3
MaxIters == 24

\* --------------------------------------------------------------- variables
VARIABLES
    \* IQPlayer
    file_path, samples, position, running, paused,
    \* SignalMixer
    sample_rate, jamming_enabled, jamming_type, jamming_power,
    jamming_frequency, current_freq, sample_counter,
    \* RTLTCPServer
    clients, client_readers, sess, out, closed, rbuf,
    \* transport and peers
    sockbuf, wire, eof, sent, werr,
    \* stream_loop, and the mix_signals call in progress
    pc, chunk, nread, mixed, gen,
    \* observation of the calls made
    call, ncmd, lastcmd, swap,
    \* decode-service: a pure function of utils applied to an argument
    input, output, fn,
    \* AISDecoder
    bit_buffer, last_bit, message_count, messages,
    \* SSTVDecoder (audio_buffer is the buffer's length), and the events it
    \* sent on the websocket in the last step
    decode_state, current_line, current_col, current_image, audio_buffer,
    vis_wait_time, events,
    \* MetricsAnalyzer and its RTLTCPClient: position in analyze_stream, the
    \* stop flag (self.running), the client's connected flag, whether its TCP
    \* stream still delivers, the server, current_state["playing"], the last
    \* metrics sent as <<snr, ber>>, the reconnects made, the seconds slept
    \* before the last one, and the messages sent in the last step
    an_pc, an_running, connected, link, server_up, playing, metrics,
    chunk_counter, attempts, backoff, an_events,
    \* the get_chunk call in progress on the event-loop thread
    gc,
    \* GardnerClockRecovery: mu and omega of the object, i, last_sample and
    \* mid_sample of the process call in progress
    clock

playerVars == <<file_path, samples, position, running, paused>>
mixerVars == <<sample_rate, jamming_enabled, jamming_type, jamming_power,
               jamming_frequency, current_freq, sample_counter>>
serverVars == <<clients, client_readers, sess, out, closed, rbuf>>
netVars == <<sockbuf, wire, eof, sent, werr>>
loopVars == <<pc, chunk, nread, mixed, gen>>
obsVars == <<call, ncmd, lastcmd, swap>>
fnVars == <<input, output, fn>>
aisVars == <<bit_buffer, last_bit, message_count, messages>>
sstvVars == <<decode_state, current_line, current_col, current_image,
              audio_buffer, vis_wait_time, events>>
metVars == <<an_pc, an_running, connected, link, server_up, playing, metrics,
             chunk_counter, attempts, backoff, an_events>>
raceVars == <<gc>>
gardVars == <<clock>>
auxVars == <<metVars, raceVars, gardVars>>
decVars == <<fnVars, aisVars, sstvVars, auxVars>>
sdrVars == <<playerVars, mixerVars, serverVars, netVars, loopVars, obsVars>>
vars == <<sdrVars, decVars>>

\* ------------------------------------------------------------------ helpers
None == <<-1>>
Min(a, b) == IF a < b THEN a ELSE b
Max(a, b) == IF a > b THEN a ELSE b
Abs(a) == IF a < 0 THEN -a ELSE a
\* Python s[a:b] for 0 <= a and 0 <= b (indices are 0-based, b exclusive).
Slice(s, a, b) == SubSeq(s, a + 1, Min(b, Len(s)))

\* ----------------------------------------------------------------- IQ files
MissingPath == 0
Paths == 0..MaxLen
PathExists(p) == p \in 1..MaxLen
FileData(p) == [i \in 1..p |-> p * 10 + (i - 1)]

\* ------------------------------------------------------------------ IQPlayer
PlayerState ==
    [file_path |-> file_path, samples |-> samples, position |-> position,
     running |-> running, paused |-> paused]

SetPlayer(P) ==
    /\ file_path' = P.file_path
    /\ samples' = P.samples
    /\ position' = P.position
    /\ running' = P.running
    /\ paused' = P.paused

\* The player's fields hold the values of P.
PlayerIs(P) ==
    /\ file_path = P.file_path
    /\ samples = P.samples
    /\ position = P.position
    /\ running = P.running
    /\ paused = P.paused

\* IQPlayer.__init__
PlayerNew(p) ==
    [file_path |-> p, samples |-> None, position |-> 0,
     running |-> FALSE, paused |-> FALSE]

\* IQPlayer.load_file(file_path): the path is stored before the existence
\* check; a missing file leaves the samples as they were.
load_file(P, p) ==
    IF PathExists(p)
    THEN [P EXCEPT !.file_path = p, !.samples = FileData(p)]
    ELSE [P EXCEPT !.file_path = p]

\* IQPlayer.play / pause / stop
play(P) == [P EXCEPT !.running = TRUE, !.paused = FALSE]
pause(P) == [P EXCEPT !.paused = TRUE]
\* A stop that leaves the read offset where it is
stop_keeps_position(P) == [P EXCEPT !.running = FALSE]
stop(P) == [P EXCEPT !.running = FALSE, !.position = 0]

\* IQPlayer.switch_file: stop(), then load_file(new_file_path)
switch_file(P, p) == load_file(stop(P), p)

\* IQPlayer.get_chunk, the part after the running/paused test.
\* end_pos = min(position + chunk_size, len(samples))
EndPos(pos, n, total) == Min(pos + n, total)
\* The loop test written with > instead of >=
NextPositionStrict(end_pos, total) == IF end_pos > total THEN 0 ELSE end_pos
\* position after the chunk: loop if the end is reached
NextPosition(end_pos, total) == IF end_pos >= total THEN 0 ELSE end_pos

\* A test that looks at the running flag only
ChunkBlockedWhenStopped(P) == ~P.running
\* get_chunk returns None without touching the player when it is not
\* running or is paused.
ChunkBlocked(P) == ~P.running \/ P.paused
\* get_chunk loads the file first when no samples are loaded; with a missing
\* file the samples stay None and len(None) raises.
ChunkLoaded(P) == IF P.samples = None THEN load_file(P, P.file_path) ELSE P
ChunkRaises(P) == ~ChunkBlocked(P) /\ ChunkLoaded(P).samples = None
\* A slice that starts one sample late
ChunkOfLate(P, n) ==
    LET Q == ChunkLoaded(P)
    IN  Slice(Q.samples, Q.position + 1, EndPos(Q.position, n, Len(Q.samples)))
\* The array get_chunk returns.
ChunkOf(P, n) ==
    LET Q == ChunkLoaded(P)
    IN  Slice(Q.samples, Q.position, EndPos(Q.position, n, Len(Q.samples)))
\* The player after get_chunk returned an array.
AfterChunk(P, n) ==
    LET Q == ChunkLoaded(P)
        total == Len(Q.samples)
    IN  [Q EXCEPT !.position = NextPosition(EndPos(Q.position, n, total), total)]

\* IQPlayer.get_chunk(chunk_size): the player afterwards, the value returned
\* and how the call ended.
get_chunk(P, n) ==
    IF ChunkBlocked(P)
    THEN [p |-> P, ret |-> None, how |-> "none"]
    ELSE IF ChunkRaises(P)
    THEN [p |-> ChunkLoaded(P), ret |-> None, how |-> "raise"]
    ELSE [p |-> AfterChunk(P, n), ret |-> ChunkOf(P, n), how |-> "ok"]

\* swap follows a file swap made over the control bus: "swapped" once
\* switch_iq was handled, "read" once the stream loop has read a chunk after
\* it, "no" again once that chunk has been mixed.
\* What the observer records of a get_chunk(n) call: the size asked for, the
\* offset it started from, k = how many consecutive calls of this size have
\* been made since one started at offset 0, and prevk = k before the call.
ChunkCall(n) ==
    [op |-> "chunk", n |-> n, pos |-> position,
     k |-> IF position = 0 THEN 1
           ELSE IF call.op = "chunk" /\ call.n = n /\ call.k >= 1
                THEN call.k + 1 ELSE 0,
     prevk |-> IF call.op = "chunk" /\ call.n = n THEN call.k ELSE 0]
OtherCall(op) == [op |-> op, n |-> 0, pos |-> 0, k |-> 0, prevk |-> 0]

\* --------------------------------------------------------------- SignalMixer
\* Defaults of SignalMixer.__init__ and of main(): SAMPLE_RATE, and
\* jamming_frequency = current_freq = 100e6, jamming_power = 0.1 (in tenths).
SAMPLE_RATE == 1024000
DEFAULT_FREQ == 100000000
DEFAULT_POWER == 1
\* pulse_period, pulse_width (samples) and the fhss hop offsets (Hz)
PULSE_PERIOD == 1000
PULSE_WIDTH == 100
HOP_FREQS == {-40000, -20000, 0, 20000, 40000}
VALID_TYPES == {"barrage", "spot", "sweep", "pulse", "chirp", "fhss"}

MixerState ==
    [sample_rate |-> sample_rate, jamming_enabled |-> jamming_enabled,
     jamming_type |-> jamming_type, jamming_power |-> jamming_power,
     jamming_frequency |-> jamming_frequency, current_freq |-> current_freq,
     sample_counter |-> sample_counter]

SetMixer(M) ==
    /\ sample_rate' = M.sample_rate
    /\ jamming_enabled' = M.jamming_enabled
    /\ jamming_type' = M.jamming_type
    /\ jamming_power' = M.jamming_power
    /\ jamming_frequency' = M.jamming_frequency
    /\ current_freq' = M.current_freq
    /\ sample_counter' = M.sample_counter

\* The mixer's fields hold the values of M.
MixerIs(M) ==
    /\ sample_rate = M.sample_rate
    /\ jamming_enabled = M.jamming_enabled
    /\ jamming_type = M.jamming_type
    /\ jamming_power = M.jamming_power
    /\ jamming_frequency = M.jamming_frequency
    /\ current_freq = M.current_freq
    /\ sample_counter = M.sample_counter

\* SignalMixer.__init__
MixerNew ==
    [sample_rate |-> SAMPLE_RATE, jamming_enabled |-> FALSE,
     jamming_type |-> "barrage", jamming_power |-> DEFAULT_POWER,
     jamming_frequency |-> DEFAULT_FREQ, current_freq |-> DEFAULT_FREQ,
     sample_counter |-> 0]

\* set_frequency without the reset of the phase counter
set_frequency_keeps_phase(M, f) == [M EXCEPT !.current_freq = f]
set_frequency(M, f) == [M EXCEPT !.current_freq = f, !.sample_counter = 0]
set_sample_rate(M, r) == [M EXCEPT !.sample_rate = r, !.sample_counter = 0]
set_jamming_frequency(M, f) ==
    [M EXCEPT !.jamming_frequency = f, !.sample_counter = 0]
enable_jamming(M) == [M EXCEPT !.jamming_enabled = TRUE]
disable_jamming(M) == [M EXCEPT !.jamming_enabled = FALSE]
\* set_jamming_type without the reset of the phase counter
set_jamming_type_keeps_phase(M, t) ==
    IF t \in VALID_TYPES THEN [M EXCEPT !.jamming_type = t] ELSE M
set_jamming_type(M, t) ==
    IF t \in VALID_TYPES
    THEN [M EXCEPT !.jamming_type = t, !.sample_counter = 0]
    ELSE M
\* power in tenths: max(0.0, min(1.0, power))
set_jamming_power(M, p) == [M EXCEPT !.jamming_power = Max(0, Min(10, p))]

\* The passband test with <= in place of <
is_in_bandwidth_inclusive(M) ==
    2 * Abs(M.jamming_frequency - M.current_freq) <= M.sample_rate
\* abs(jamming_frequency - current_freq) < sample_rate / 2
is_in_bandwidth(M) ==
    2 * Abs(M.jamming_frequency - M.current_freq) < M.sample_rate

\* Jammer samples. Zero is the complex zero; a sample is non-zero when it is
\* not Zero and its amplitude is positive.
Zero == <<"zero", 0, 0, 0, 0, 0>>
Zeros(n) == [i \in 1..n |-> Zero]
NonZero(s) == s[1] /= "zero" /\ s[2] > 0

\* SignalMixer._generate_jamming(num_samples): the possible outcomes, each
\* [m |-> mixer afterwards, jam |-> the chunk, raises |-> an exception left
\* the method]. Noise and hop choices make the outcome a set.
GenOut(M, jam) == [m |-> M, jam |-> jam, raises |-> FALSE]
\* A counter that is left where it was
AdvanceStays(M, n) == M
Advance(M, n) == [M EXCEPT !.sample_counter = M.sample_counter + n]
generate_jamming(M, n) ==
    LET A == M.jamming_power
        off == M.jamming_frequency - M.current_freq
        fs == M.sample_rate
        k == M.sample_counter
        hop == fs \div 100
    IN
    IF M.jamming_type = "barrage"
    THEN {GenOut(M, [i \in 1..n |-> <<"noise", A, 0, 0, 0, i - 1>>])}
    ELSE IF ~is_in_bandwidth(M)
    THEN {GenOut(M, Zeros(n))}
    ELSE IF M.jamming_type = "spot"
    THEN {GenOut(Advance(M, n),
                 [i \in 1..n |-> <<"tone", A, off, fs, k + i - 1, 0>>])}
    ELSE IF M.jamming_type = "sweep"
    THEN {GenOut(Advance(M, n),
                 [i \in 1..n |-> <<"sweep", A, off, fs, k + i - 1, i - 1>>])}
    ELSE IF M.jamming_type = "pulse"
    THEN {GenOut(Advance(M, n),
                 [i \in 1..n |->
                    IF (i - 1) % PULSE_PERIOD < PULSE_WIDTH
                    THEN <<"tone", A, off, fs, k + i - 1, 0>>
                    ELSE Zero])}
    ELSE IF M.jamming_type = "chirp"
    THEN {GenOut(Advance(M, n),
                 [i \in 1..n |-> <<"chirp", A, off, fs, k + i - 1, i - 1>>])}
    ELSE IF M.jamming_type = "fhss"
    THEN IF hop = 0
         THEN {[m |-> M, jam |-> <<>>, raises |-> TRUE]}
         ELSE {GenOut(M, [i \in 1..n |->
                            <<"tone", A, off + h[(i - 1) \div hop], fs,
                              (i - 1) % hop, 0>>]) :
               h \in [0..((n - 1) \div hop) -> HOP_FREQS]}
    ELSE {GenOut(M, Zeros(n))}

\* clean + jamming, sample by sample; a clean chunk returned unchanged is
\* the clean chunk plus zeros.
Add(clean, jam) == [i \in 1..Len(clean) |-> <<clean[i], jam[i]>>]
Unmixed(clean) == Add(clean, Zeros(Len(clean)))

\* SignalMixer.mix_signals(clean_iq): outcomes [m, out, raises].
mix_signals(M, clean) ==
    IF ~M.jamming_enabled \/ Len(clean) = 0
    THEN {[m |-> M, out |-> Unmixed(clean), raises |-> FALSE]}
    ELSE {[m |-> g.m,
           out |-> IF \E i \in 1..Len(g.jam) : NonZero(g.jam[i])
                   THEN Add(clean, g.jam)
                   ELSE Unmixed(clean),
           raises |-> g.raises] : g \in generate_jamming(M, Len(clean))}

\* -------------------------------------------------------------- RTLTCPServer
\* Connections the model follows; each connects at most once.
Conns == {1, 2}

\* struct.pack('>4sII', b'RTL0', 1, 29)
U32BE(v) == <<(v \div 16777216) % 256, (v \div 65536) % 256,
              (v \div 256) % 256, v % 256>>
create_dongle_info == <<82, 84, 76, 48>> \o U32BE(1) \o U32BE(29)

\* The client's struct.pack('>BI', cmd, param)
PackBI(cmd, param) == <<cmd>> \o U32BE(param)
\* The server's struct.unpack('>I', data[1:5])[0]
UnpackParam(data) ==
    ((data[2] * 256 + data[3]) * 256 + data[4]) * 256 + data[5]

\* What one write() hands to a connection's transport: seq is 0 for the
\* header and the number of the chunk for samples.
HeaderWrite == [seq |-> 0, bytes |-> create_dongle_info]
SampleWrite(k, data) == [seq |-> k, bytes |-> data]
\* A write that overtakes the writes made before it.
ClientWriteOvertakes(buf, w) == <<w>> \o buf
\* writer.write(data) appends to what the peer will receive.
ClientWrite(buf, w) == Append(buf, w)

\* list.remove(x) on a list without duplicates
Remove(list, x) == SelectSeq(list, LAMBDA y : y /= x)
InList(list, x) == \E i \in 1..Len(list) : list[i] = x

\* uint8 I/Q interleave of the clipped chunk: I0, Q0, I1, Q1, ...
IQBytes(x) ==
    [j \in 1..(2 * Len(x)) |->
        <<IF j % 2 = 1 THEN "I" ELSE "Q", x[(j + 1) \div 2]>>]

\* RTLTCPServer.__init__ with no connection made yet
ServerInit ==
    /\ clients = <<>>
    /\ client_readers = {}
    /\ sess = [c \in Conns |-> "none"]
    /\ out = [c \in Conns |-> <<>>]
    /\ closed = [c \in Conns |-> FALSE]
    /\ rbuf = [c \in Conns |-> <<>>]

NetInit ==
    /\ sockbuf = [c \in Conns |-> 0]
    /\ wire = [c \in Conns |-> <<>>]
    /\ eof = [c \in Conns |-> FALSE]
    /\ sent = [c \in Conns |-> 0]
    /\ werr = {}

\* No mix_signals call is in progress. gen holds the position in the call
\* (step), the chunk length, the values the call has read into its locals
\* so far, the mixer as it was when the call began (m0) and whether a
\* setter that resets the counter ran during the call (hit).
GenIdle ==
    [step |-> "idle", n |-> 0, kind |-> "", off |-> 0, t |-> 0, fs |-> 0,
     A |-> 0, ld |-> 0, m0 |-> MixerNew, hit |-> FALSE]

LoopInit ==
    /\ pc = "loop"
    /\ chunk = None
    /\ nread = 0
    /\ mixed = <<>>
    /\ gen = GenIdle

ObsInit ==
    /\ call = [op |-> "init", n |-> 0, pos |-> 0, k |-> 0, prevk |-> 0]
    /\ ncmd = 0
    /\ lastcmd = <<0, 0>>
    /\ swap = "no"

\* The decode-service before any decoder ran: AISDecoder.__init__ and
\* SSTVDecoder.__init__.
FnIdle ==
    input = <<>> /\ output = <<>> /\ fn = "none"

AisIdle ==
    bit_buffer = <<>> /\ last_bit = 0 /\ message_count = 0 /\ messages = <<>>

SstvIdle ==
    /\ decode_state = "WAITING_FOR_VIS"
    /\ current_line = 0
    /\ current_col = 0
    /\ current_image = None
    /\ audio_buffer = 0
    /\ vis_wait_time = 0
    /\ events = <<>>

\* The metrics analyzer as constructed, the server accepting connections and
\* current_state["playing"] False as main.py sets it.
MetIdle ==
    /\ an_pc = "new"
    /\ an_running = FALSE
    /\ connected = FALSE
    /\ link = FALSE
    /\ server_up = TRUE
    /\ playing = FALSE
    /\ metrics = None
    /\ chunk_counter = 0
    /\ attempts = 0
    /\ backoff = 0
    /\ an_events = <<>>

\* No get_chunk call in progress.
GcIdle == [step |-> "idle", n |-> 0, end_pos |-> 0]

\* Time in the clock recovery loop is counted in steps of 1 / TimeUnit of a
\* sample, the unit in which gain_omega = loop_bandwidth ** 2 / 4.0 with
\* loop_bandwidth = 0.01 is one step per unit of timing error.
TimeUnit == 4 * 100 * 100
\* samples_per_bit = 12000 / AIS_BAUD_RATE = 1.25 samples per bit.
SamplesPerBit == (12000 * TimeUnit) \div 9600

\* GardnerClockRecovery.__init__(samples_per_symbol), with the locals of
\* process at the start of a call.
ClockNew(sps) ==
    [mu |-> 0, omega |-> sps, i |-> 0, last_sample |-> 0, mid_sample |-> 0]

AuxIdle == MetIdle /\ gc = GcIdle /\ clock = ClockNew(SamplesPerBit)

DecInit == FnIdle /\ AisIdle /\ SstvIdle /\ AuxIdle

\* The sdr-service as constructed, for the specifications that exercise one
\* part of the decode-service.
SdrIdle ==
    /\ PlayerIs(PlayerNew(MaxLen))
    /\ MixerIs(MixerNew)
    /\ ServerInit /\ NetInit /\ LoopInit /\ ObsInit

\* The event loop runs a connection's coroutines only while stream_loop is
\* suspended in one of get_chunk's sleeps.
LoopSuspended == pc \in {"idle", "pace"}

\* Accept with clients.append(writer) moved ahead of the header write.
AcceptAppendsFirst(c) ==
    /\ LoopSuspended
    /\ sess[c] = "none"
    /\ clients' = Append(clients, c)
    /\ sess' = [sess EXCEPT ![c] = "hdr"]
    /\ UNCHANGED <<out, sockbuf, client_readers, closed, rbuf, wire, eof, sent, werr>>
    /\ UNCHANGED <<playerVars, mixerVars, loopVars, obsVars, decVars>>

\* handle_client up to "await writer.drain()": the header is written.
Accept(c) ==
    /\ LoopSuspended
    /\ sess[c] = "none"
    /\ out' = [out EXCEPT ![c] = ClientWrite(out[c], HeaderWrite)]
    /\ sockbuf' = [sockbuf EXCEPT ![c] = sockbuf[c] + 1]
    /\ sess' = [sess EXCEPT ![c] = "hdr"]
    /\ UNCHANGED <<clients, client_readers, closed, rbuf, wire, eof, sent, werr>>
    /\ UNCHANGED <<playerVars, mixerVars, loopVars, obsVars, decVars>>

\* The list of writers after handle_client's clients.append(writer)
Registered(list, c) == Append(list, c)

\* drain() returned: the writer joins clients and the command task starts.
Register(c) ==
    /\ LoopSuspended
    /\ sess[c] = "hdr"
    /\ clients' = Registered(clients, c)
    /\ client_readers' = client_readers \cup {c}
    /\ sess' = [sess EXCEPT ![c] = "cmd"]
    /\ UNCHANGED <<out, closed, rbuf, netVars>>
    /\ UNCHANGED <<playerVars, mixerVars, loopVars, obsVars, decVars>>

\* drain() raised because the connection is gone: handle_client ends by the
\* exception before its try block, so nothing is removed or closed.
DrainFail(c) ==
    /\ LoopSuspended
    /\ sess[c] = "hdr"
    /\ eof[c]
    /\ sess' = [sess EXCEPT ![c] = "aborted"]
    /\ UNCHANGED <<clients, client_readers, out, closed, rbuf, netVars>>
    /\ UNCHANGED <<playerVars, mixerVars, loopVars, obsVars, decVars>>

\* reader.read(5): up to 5 of the bytes that have arrived (b'' at EOF).
Read5(buf) == Slice(buf, 0, 5)
\* "if not data or len(data) != 5: break"
ShortRead(data) == Len(data) = 0 \/ Len(data) /= 5

\* A dispatch that treats every command other than 0x02 as a retune.
DispatchRetunesByDefault(M, cmd, param) ==
    IF cmd = 2 THEN set_sample_rate(M, param) ELSE set_frequency(M, param)
\* The command dispatch of handle_client_commands on the mixer.
Dispatch(M, cmd, param) ==
    IF cmd = 1 THEN set_frequency(M, param)
    ELSE IF cmd = 2 THEN set_sample_rate(M, param)
    ELSE M

\* One turn of the loop of handle_client_commands: read, then either leave
\* the loop (the command task is done) or dispatch the command.
ReadCmd(c) ==
    /\ LoopSuspended
    /\ sess[c] = "cmd"
    /\ rbuf[c] /= <<>> \/ eof[c]
    /\ LET data == Read5(rbuf[c])
       IN  /\ rbuf' = [rbuf EXCEPT ![c] = SubSeq(rbuf[c], Len(data) + 1, Len(rbuf[c]))]
           /\ IF ShortRead(data)
              THEN /\ sess' = [sess EXCEPT ![c] = "fin"]
                   /\ UNCHANGED <<mixerVars, ncmd, lastcmd>>
              ELSE /\ SetMixer(Dispatch(MixerState, data[1], UnpackParam(data)))
                   /\ ncmd' = ncmd + 1
                   /\ lastcmd' = <<data[1], UnpackParam(data)>>
                   /\ sess' = sess
    /\ UNCHANGED <<clients, client_readers, out, closed, netVars>>
    /\ UNCHANGED <<playerVars, loopVars, call, swap, decVars>>

\* handle_client's finally block, once the command task is done.
Finish(c) ==
    /\ LoopSuspended
    /\ sess[c] = "fin"
    /\ clients' = IF InList(clients, c) THEN Remove(clients, c) ELSE clients
    /\ client_readers' = client_readers \ {c}
    /\ closed' = [closed EXCEPT ![c] = TRUE]
    /\ sess' = [sess EXCEPT ![c] = "done"]
    /\ UNCHANGED <<out, rbuf, netVars>>
    /\ UNCHANGED <<playerVars, mixerVars, loopVars, obsVars, decVars>>

\* ------------------------------------------------------------- peers, network
\* The peer sends one command record; the first k bytes reach the server's
\* reader at once and the rest stay in flight.
PeerSend(c, cmd, param, k) ==
    /\ sess[c] \in {"hdr", "cmd"}
    /\ ~eof[c]
    /\ sent[c] < MaxCmds
    /\ wire[c] = <<>> /\ rbuf[c] = <<>>
    /\ LET rec == PackBI(cmd, param)
       IN  /\ rbuf' = [rbuf EXCEPT ![c] = SubSeq(rec, 1, k)]
           /\ wire' = [wire EXCEPT ![c] = SubSeq(rec, k + 1, Len(rec))]
    /\ sent' = [sent EXCEPT ![c] = sent[c] + 1]
    /\ UNCHANGED <<clients, client_readers, sess, out, closed, sockbuf, eof, werr>>
    /\ UNCHANGED <<playerVars, mixerVars, loopVars, obsVars, decVars>>

\* The bytes in flight arrive.
DeliverRest(c) ==
    /\ wire[c] /= <<>>
    /\ rbuf' = [rbuf EXCEPT ![c] = rbuf[c] \o wire[c]]
    /\ wire' = [wire EXCEPT ![c] = <<>>]
    /\ UNCHANGED <<clients, client_readers, sess, out, closed, sockbuf, eof, sent, werr>>
    /\ UNCHANGED <<playerVars, mixerVars, loopVars, obsVars, decVars>>

\* The peer closes the connection: the reader is fed EOF.
PeerClose(c) ==
    /\ sess[c] \in {"hdr", "cmd"}
    /\ ~eof[c]
    /\ wire[c] = <<>>
    /\ eof' = [eof EXCEPT ![c] = TRUE]
    /\ UNCHANGED <<sockbuf, wire, sent, werr>>
    /\ UNCHANGED <<playerVars, mixerVars, serverVars, loopVars, obsVars, decVars>>

\* The peer takes what the transport has buffered for it.
Flush(c) ==
    /\ sockbuf[c] > 0
    /\ sockbuf' = [sockbuf EXCEPT ![c] = 0]
    /\ UNCHANGED <<wire, eof, sent, werr>>
    /\ UNCHANGED <<playerVars, mixerVars, serverVars, loopVars, obsVars, decVars>>

\* ------------------------------------------------------------------ MQTT
\* MQTTHandler._handle_command(command, params) on the player and the mixer;
\* arg is the one parameter the command reads. The result holds the player
\* and the mixer afterwards, the mutators called in order and the number of
\* publish_status() calls made.
Handled(P, M, calls) == [p |-> P, m |-> M, calls |-> calls, pubs |-> 1]
Legacy(P, M, t) ==
    Handled(P, enable_jamming(set_jamming_type(M, t)),
            <<"set_jamming_type", "enable_jamming">>)
handle_command(P, M, command, arg) ==
    IF command = "play" THEN Handled(play(P), M, <<"play">>)
    ELSE IF command = "pause" THEN Handled(pause(P), M, <<"pause">>)
    ELSE IF command = "stop" THEN Handled(stop(P), M, <<"stop">>)
    ELSE IF command = "enable_jamming"
    THEN Handled(P, enable_jamming(M), <<"enable_jamming">>)
    ELSE IF command = "disable_jamming"
    THEN Handled(P, disable_jamming(M), <<"disable_jamming">>)
    ELSE IF command = "set_jam_type"
    THEN LET M1 == set_jamming_type(M, arg)
         IN  IF arg /= "barrage" /\ M1.jamming_frequency = DEFAULT_FREQ
             THEN Handled(P, set_jamming_frequency(M1, M1.current_freq),
                          <<"set_jamming_type", "set_jamming_frequency">>)
             ELSE Handled(P, M1, <<"set_jamming_type">>)
    ELSE IF command = "set_jam_power"
    THEN Handled(P, set_jamming_power(M, arg), <<"set_jamming_power">>)
    ELSE IF command = "set_jam_frequency"
    THEN Handled(P, set_jamming_frequency(M, arg), <<"set_jamming_frequency">>)
    ELSE IF command = "jamming_cw" THEN Legacy(P, M, "spot")
    ELSE IF command = "jamming_noise" THEN Legacy(P, M, "barrage")
    ELSE IF command = "jamming_sweep" THEN Legacy(P, M, "sweep")
    ELSE IF command = "jamming_pulse" THEN Legacy(P, M, "pulse")
    ELSE IF command = "jamming_chirp" THEN Legacy(P, M, "chirp")
    ELSE IF command = "jamming_clear"
    THEN Handled(P, disable_jamming(M), <<"disable_jamming">>)
    ELSE IF command = "switch_iq"
    THEN Handled(switch_file(P, arg), M, <<"switch_file">>)
    ELSE [p |-> P, m |-> M, calls |-> <<>>, pubs |-> 0]

\* The command calls a setter that resets the jammer's sample counter.
CounterReset(command, arg) ==
    \/ command \in {"set_jam_frequency", "jamming_cw", "jamming_noise",
                    "jamming_sweep", "jamming_pulse", "jamming_chirp"}
    \/ /\ command = "set_jam_type"
       /\ \/ arg \in VALID_TYPES
          \/ (arg /= "barrage" /\ jamming_frequency = DEFAULT_FREQ)

\* A control message handled on the MQTT client's thread.
Mqtt(command, arg) ==
    /\ pc /= "crashed"
    /\ LET r == handle_command(PlayerState, MixerState, command, arg)
       IN  SetPlayer(r.p) /\ SetMixer(r.m)
    /\ call' = OtherCall("mqtt")
    /\ swap' = IF command = "switch_iq" THEN "swapped" ELSE swap
    /\ gen' = IF gen.step /= "idle" /\ CounterReset(command, arg)
              THEN [gen EXCEPT !.hit = TRUE] ELSE gen
    /\ UNCHANGED <<serverVars, netVars, pc, chunk, nread, mixed, ncmd, lastcmd,
                 decVars>>

\* ------------------------------------------------------------- stream_loop
\* A write that waits until the peer has drained what was written before.
WriteReadyWhenDrained(c) == sockbuf[c] = 0
\* transport.write() takes the bytes whatever the peer has read so far.
WriteReady(c) == TRUE

\* stream_loop calls get_chunk(): either it sleeps 0.1 s to return None, or
\* it takes the chunk, moves the position and sleeps for the pacing time.
GetChunk ==
    /\ pc = "loop"
    /\ LET r == get_chunk(PlayerState, ChunkSize)
       IN  /\ r.how = "ok" => nread < MaxReads
           /\ SetPlayer(r.p)
           /\ chunk' = r.ret
           /\ pc' = IF r.how = "ok" THEN "pace"
                    ELSE IF r.how = "none" THEN "idle" ELSE "crashed"
           /\ nread' = IF r.how = "ok" THEN nread + 1 ELSE nread
           /\ call' = IF r.how = "ok" THEN ChunkCall(ChunkSize)
                      ELSE OtherCall("chunk_" \o r.how)
           /\ swap' = IF r.how = "ok" /\ swap = "swapped" THEN "read" ELSE swap
    /\ UNCHANGED <<mixed, gen, ncmd, lastcmd, decVars>>
    /\ UNCHANGED <<mixerVars, serverVars, netVars>>

\* The 0.1 s sleep is over: get_chunk returns None and the loop goes round.
WakeIdle ==
    /\ pc = "idle"
    /\ pc' = "loop"
    /\ UNCHANGED <<chunk, nread, mixed, gen>>
    /\ UNCHANGED <<playerVars, mixerVars, serverVars, netVars, obsVars, decVars>>

\* The pacing sleep is over: get_chunk returns the chunk, mix_signals mixes
\* it and broadcast_samples writes it to every client; the writes to the
\* clients in F raise.
MixBroadcast(F) ==
    /\ pc = "pace"
    /\ \A c \in Conns : InList(clients, c) => WriteReady(c)
    /\ \A c \in F : InList(clients, c)
    /\ \E r \in mix_signals(MixerState, chunk) :
        /\ SetMixer(r.m)
        /\ IF r.raises
           THEN /\ F = {}
                /\ pc' = "crashed"
                /\ UNCHANGED <<mixed, clients, out, sockbuf, werr>>
           ELSE /\ pc' = "loop"
                /\ mixed' = r.out
                /\ IF clients = <<>>
                   THEN UNCHANGED <<clients, out, sockbuf, werr>>
                   ELSE /\ out' = [c \in Conns |->
                                    IF InList(clients, c) /\ c \notin F
                                    THEN ClientWrite(out[c],
                                            SampleWrite(nread, IQBytes(r.out)))
                                    ELSE out[c]]
                        /\ sockbuf' = [c \in Conns |->
                                    IF InList(clients, c) /\ c \notin F
                                    THEN sockbuf[c] + 1 ELSE sockbuf[c]]
                        /\ clients' = SelectSeq(clients, LAMBDA c : c \notin F)
                        /\ werr' = werr \cup F
    /\ swap' = IF swap = "read" THEN "no" ELSE swap
    /\ UNCHANGED <<chunk, nread, gen, client_readers, sess, closed, rbuf, wire, eof, sent>>
    /\ UNCHANGED <<playerVars, call, ncmd, lastcmd, decVars>>

\* ------------------------------------------------- calls on the player's API
ApiCall(op, P) ==
    /\ SetPlayer(P)
    /\ chunk' = None
    /\ call' = OtherCall(op)
    /\ UNCHANGED <<mixerVars, serverVars, netVars, pc, nread, mixed, gen,
                   ncmd, lastcmd, swap, decVars>>

ApiLoad(p) == ApiCall("load", load_file(PlayerState, p))
ApiPlay == ApiCall("play", play(PlayerState))
ApiPause == ApiCall("pause", pause(PlayerState))
ApiStop == ApiCall("stop", stop(PlayerState))
ApiSwitch(p) == ApiCall("switch", switch_file(PlayerState, p))
ApiChunk(n) ==
    LET r == get_chunk(PlayerState, n)
    IN  /\ SetPlayer(r.p)
        /\ chunk' = r.ret
        /\ call' = IF r.how = "ok" THEN ChunkCall(n)
                   ELSE OtherCall("chunk_" \o r.how)
        /\ UNCHANGED <<mixerVars, serverVars, netVars, pc, nread, mixed, gen,
                       ncmd, lastcmd, swap, decVars>>

\* -------------------------------------------------- calls on the mixer's API
\* A setter call: the observer records the call and the value the sample
\* counter had when it was made; no samples are returned.
MixerCall(op, M) ==
    /\ SetMixer(M)
    /\ chunk' = None
    /\ mixed' = <<>>
    /\ call' = [OtherCall(op) EXCEPT !.pos = sample_counter]
    /\ UNCHANGED <<playerVars, serverVars, netVars, pc, nread, gen,
                   ncmd, lastcmd, swap, decVars>>

MixerSetFrequency(f) ==
    MixerCall("set_frequency", set_frequency(MixerState, f))
MixerSetSampleRate(r) ==
    MixerCall("set_sample_rate", set_sample_rate(MixerState, r))
MixerSetJammingFrequency(f) ==
    MixerCall("set_jamming_frequency", set_jamming_frequency(MixerState, f))
MixerEnable == MixerCall("enable_jamming", enable_jamming(MixerState))
MixerDisable == MixerCall("disable_jamming", disable_jamming(MixerState))
MixerSetType(t) ==
    MixerCall("set_jamming_type", set_jamming_type(MixerState, t))
MixerSetPower(p) ==
    MixerCall("set_jamming_power", set_jamming_power(MixerState, p))

\* A clean chunk of n samples, sample i being i.
CleanChunk(n) == [i \in 1..n |-> i]

\* mix_signals on a clean chunk of n samples: the observer records the
\* length, the sample counter before the call and what was returned.
MixerMix(n) ==
    /\ sample_counter + n <= MaxCount
    /\ \E r \in mix_signals(MixerState, CleanChunk(n)) :
          /\ SetMixer(r.m)
          /\ chunk' = CleanChunk(n)
          /\ mixed' = r.out
          /\ call' = [OtherCall(IF r.raises THEN "mix_raise" ELSE "mix")
                         EXCEPT !.n = n, !.pos = sample_counter]
    /\ UNCHANGED <<playerVars, serverVars, netVars, pc, nread, gen,
                   ncmd, lastcmd, swap, decVars>>

\* ------------------------------------- mix_signals, one attribute read at a time
\* The MQTT client's thread runs the setters while the event-loop thread is
\* inside mix_signals: the call is followed read by read for the kinds that
\* use the sample counter (spot, sweep, pulse, chirp read the same
\* attributes in the same order).
PhaseKinds == {"spot", "sweep", "pulse", "chirp"}

\* The waveform computed from the values held in the call's locals.
Wave(kind, A, off, fs, k, n) ==
    [i \in 1..n |->
        IF kind = "spot" THEN <<"tone", A, off, fs, k + i - 1, 0>>
        ELSE IF kind = "sweep" THEN <<"sweep", A, off, fs, k + i - 1, i - 1>>
        ELSE IF kind = "pulse"
        THEN IF (i - 1) % PULSE_PERIOD < PULSE_WIDTH
             THEN <<"tone", A, off, fs, k + i - 1, 0>>
             ELSE Zero
        ELSE <<"chirp", A, off, fs, k + i - 1, i - 1>>]

GenFrame ==
    UNCHANGED <<playerVars, serverVars, netVars, pc, nread, obsVars, decVars>>

\* _generate_jamming returned jam: mix_signals adds it if any sample of it
\* is non-zero and returns.
GenReturn(jam) ==
    /\ mixed' = IF \E i \in 1..Len(jam) : NonZero(jam[i])
                THEN Add(chunk, jam) ELSE Unmixed(chunk)
    /\ gen' = [gen EXCEPT !.step = "idle"]
    /\ chunk' = chunk

\* mix_signals(clean_iq) is called: "if not self.jamming_enabled or
\* len(clean_iq) == 0: return clean_iq".
GenEnter(n) ==
    /\ gen.step = "idle"
    /\ sample_counter + n <= MaxCount
    /\ chunk' = CleanChunk(n)
    /\ IF jamming_enabled
       THEN /\ gen' = [GenIdle EXCEPT !.step = "type", !.n = n,
                                      !.m0 = MixerState]
            /\ mixed' = <<>>
       ELSE /\ gen' = [GenIdle EXCEPT !.n = n, !.m0 = MixerState]
            /\ mixed' = Unmixed(CleanChunk(n))
    /\ UNCHANGED mixerVars
    /\ GenFrame

\* The if/elif chain on self.jamming_type; barrage and fhss do not use the
\* counter and are taken in one step.
GenType ==
    /\ gen.step = "type"
    /\ IF jamming_type \in PhaseKinds
       THEN /\ gen' = [gen EXCEPT !.step = "offset", !.kind = jamming_type]
            /\ UNCHANGED <<chunk, mixed, mixerVars>>
       ELSE \E g \in generate_jamming(MixerState, gen.n) :
                /\ ~g.raises
                /\ SetMixer(g.m)
                /\ GenReturn(g.jam)
    /\ GenFrame

\* freq_offset = self.jamming_frequency - self.current_freq
GenOffset ==
    /\ gen.step = "offset"
    /\ gen' = [gen EXCEPT !.step = "band",
                          !.off = jamming_frequency - current_freq]
    /\ UNCHANGED <<chunk, mixed, mixerVars>>
    /\ GenFrame

\* "if not self.is_in_bandwidth(): return np.zeros(num_samples)"
GenBand ==
    /\ gen.step = "band"
    /\ IF is_in_bandwidth(MixerState)
       THEN /\ gen' = [gen EXCEPT !.step = "t"]
            /\ UNCHANGED <<chunk, mixed>>
       ELSE GenReturn(Zeros(gen.n))
    /\ UNCHANGED mixerVars
    /\ GenFrame

\* t = np.arange(num_samples) + self.sample_counter
GenT ==
    /\ gen.step = "t"
    /\ gen' = [gen EXCEPT !.step = "rate", !.t = sample_counter]
    /\ UNCHANGED <<chunk, mixed, mixerVars>>
    /\ GenFrame

\* ... / self.sample_rate
GenRate ==
    /\ gen.step = "rate"
    /\ gen' = [gen EXCEPT !.step = "power", !.fs = sample_rate]
    /\ UNCHANGED <<chunk, mixed, mixerVars>>
    /\ GenFrame

\* self.jamming_power * np.exp(1j * phase)
GenPower ==
    /\ gen.step = "power"
    /\ gen' = [gen EXCEPT !.step = "load", !.A = jamming_power]
    /\ UNCHANGED <<chunk, mixed, mixerVars>>
    /\ GenFrame

\* self.sample_counter += num_samples, the read of the attribute
GenLoad ==
    /\ gen.step = "load"
    /\ gen' = [gen EXCEPT !.step = "store", !.ld = sample_counter]
    /\ UNCHANGED <<chunk, mixed, mixerVars>>
    /\ GenFrame

\* self.sample_counter += num_samples, the store; the waveform is returned.
GenStore ==
    /\ gen.step = "store"
    /\ sample_counter' = gen.ld + gen.n
    /\ UNCHANGED <<sample_rate, jamming_enabled, jamming_type, jamming_power,
                   jamming_frequency, current_freq>>
    /\ GenReturn(Wave(gen.kind, gen.A, gen.off, gen.fs, gen.t, gen.n))
    /\ GenFrame

\* ------------------------------------------ quantization to the wire and back
\* A sample component is the integer v standing for v / Scale; a sample is the
\* pair <<real, imag>>.
Components == (-2 * Scale) .. (2 * Scale)

\* np.clip(x, -1.0, 1.0)
clip(v) == Max(-Scale, Min(v, Scale))

\* astype(np.uint8) of a float outside 0..255: the integer part, modulo 256.
quantize_wraps(v) == ((v * 255 + 255 * Scale) \div (2 * Scale)) % 256

\* One component as broadcast_samples turns it into a byte: clip, scale by
\* 127.5, offset by 127.5, astype(np.uint8) (the integer part).
quantize(v) == (clip(v) * 255 + 255 * Scale) \div (2 * Scale)

\* The byte pair broadcast_samples interleaves for one sample: I then Q.
iq_bytes(s) == <<quantize(s[1]), quantize(s[2])>>

\* get_chunk of the client: (byte - 127.5) / 127.5 for each of I and Q, kept
\* as the numerator over 255, so that the pair <<a, b>> stands for the sample
\* a/255 + j*b/255.
dequantize(u) == 2 * u - 255
iq_samples(b) == <<dequantize(b[1]), dequantize(b[2])>>

\* broadcast_samples quantizes the sample drawn at the start.
BroadcastQuantize ==
    /\ fn = "none"
    /\ output' = iq_bytes(input)
    /\ fn' = "quantized"
    /\ UNCHANGED <<input, aisVars, sstvVars, sdrVars, auxVars>>

\* The client's get_chunk turns the received bytes back into a sample.
ClientDequantize ==
    /\ fn = "quantized"
    /\ output' = iq_samples(output)
    /\ fn' = "dequantized"
    /\ UNCHANGED <<input, aisVars, sstvVars, sdrVars, auxVars>>

\* ------------------------------------------- clock_recovery: bit-level utils
Bits == {0, 1}

\* Every bit sequence of at most n bits.
BitSeqs(n) == UNION {[1..k -> Bits] : k \in 0..n}

\* a ^ b on non-negative integers.
RECURSIVE BitXor(_, _)
BitXor(a, b) ==
    IF a = 0 THEN b
    ELSE IF b = 0 THEN a
    ELSE 2 * BitXor(a \div 2, b \div 2) + ((a + b) % 2)

\* polynomial = 0x1021 and the initial crc = 0xFFFF of calculate_crc.
POLYNOMIAL == 4129
CRC_INIT == 65535

\* nrzi_decode that takes a transition for a 1.
nrzi_decode_inverted(bits) ==
    [i \in 1..Len(bits) |->
        IF bits[i] = (IF i = 1 THEN 0 ELSE bits[i - 1]) THEN 0 ELSE 1]

\* nrzi_decode: last_bit starts at 0 in every call; a bit equal to the one
\* before it decodes to 1, a different one to 0.
nrzi_decode(bits) ==
    [i \in 1..Len(bits) |->
        IF bits[i] = (IF i = 1 THEN 0 ELSE bits[i - 1]) THEN 1 ELSE 0]

\* One pass of remove_bit_stuffing's loop for one bit that drops the 0 after
\* four 1s.
UnstuffStepEarly(s, bit) ==
    IF s.ones_count = 4 /\ bit = 0
    THEN [s EXCEPT !.ones_count = 0]
    ELSE [ones_count |-> IF bit = 1 THEN s.ones_count + 1 ELSE 0,
          unstuffed |-> Append(s.unstuffed, bit)]

\* One pass of remove_bit_stuffing's while loop, for one bit, on the
\* ones_count and the unstuffed list so far.
UnstuffStep(s, bit) ==
    IF s.ones_count = 5 /\ bit = 0
    THEN [s EXCEPT !.ones_count = 0]
    ELSE [ones_count |-> IF bit = 1 THEN s.ones_count + 1 ELSE 0,
          unstuffed |-> Append(s.unstuffed, bit)]

\* The passes for bits[lo..hi] in order.  The range is halved and the left
\* half computed first (the test left = left makes TLC do so), so that the
\* evaluation nests no deeper than the logarithm of the length.
RECURSIVE Unstuff(_, _, _, _)
Unstuff(bits, lo, hi, s) ==
    IF lo > hi THEN s
    ELSE IF lo = hi THEN UnstuffStep(s, bits[lo])
    ELSE LET mid == (lo + hi) \div 2
             left == Unstuff(bits, lo, mid, s)
         IN  IF left = left THEN Unstuff(bits, mid + 1, hi, left) ELSE left

\* remove_bit_stuffing: ones_count starts at 0 in every call.
remove_bit_stuffing(bits) ==
    Unstuff(bits, 1, Len(bits), [ones_count |-> 0, unstuffed |-> <<>>]).unstuffed

\* One pass of calculate_crc's loop body for one bit.
CrcStep(crc, bit) ==
    LET x == BitXor(crc, bit * 32768)
    IN  IF x >= 32768                       \* crc & 0x8000
        THEN BitXor(x * 2, POLYNOMIAL) % 65536
        ELSE (x * 2) % 65536

\* The loop of calculate_crc over bits[lo..hi], in order.
RECURSIVE CrcFold(_, _, _, _)
CrcFold(bits, lo, hi, crc) ==
    IF lo > hi THEN crc
    ELSE IF lo = hi THEN CrcStep(crc, bits[lo])
    ELSE LET mid == (lo + hi) \div 2
             left == CrcFold(bits, lo, mid, crc)
         IN  IF left = left THEN CrcFold(bits, mid + 1, hi, left) ELSE left

\* calculate_crc that starts from 0 instead of 0xFFFF.
calculate_crc_zero_init(bits) == CrcFold(bits, 1, Len(bits), 0)

calculate_crc(bits) == CrcFold(bits, 1, Len(bits), CRC_INIT)

\* The value of a bit list read most significant bit first.
RECURSIVE BitsValue(_, _, _)
BitsValue(bits, i, acc) ==
    IF i > Len(bits) THEN acc ELSE BitsValue(bits, i + 1, acc * 2 + bits[i])

verify_ais_crc(bits) ==
    IF Len(bits) < 16 THEN FALSE
    ELSE LET data_bits == SubSeq(bits, 1, Len(bits) - 16)
             crc_bits == SubSeq(bits, Len(bits) - 15, Len(bits))
         IN  BitsValue(crc_bits, 1, 0) = calculate_crc(data_bits)
\* ----------------------------------------------------------------- AISDecoder
PREAMBLE_LEN == 24
MIN_BUFFER == 256
MIN_PACKET == 168
PACKET_LENGTHS == <<168, 256, 424>>

\* buf[a:] and buf[a:b] of Python, a and b counted from 0.
From(buf, a) == SubSeq(buf, a + 1, Len(buf))
Cut(buf, a, b) == SubSeq(buf, a + 1, Min(b, Len(buf)))

\* The alternating pattern 0101... starts at offset i of the buffer.
IsPreamble(buf, i) ==
    \A j \in 0..(PREAMBLE_LEN - 1) : buf[i + j + 1] = j % 2

\* The preamble search of _decode_ais_audio: the first offset in
\* range(len(buf) - 24) at which the pattern starts, or -1.
FindPreamble(buf) ==
    LET found == {i \in 0..(Len(buf) - PREAMBLE_LEN - 1) : IsPreamble(buf, i)}
    IN  IF found = {} THEN -1
        ELSE CHOOSE i \in found : \A k \in found : i <= k

\* The bit errors _decode_ais_packet applies when jamming_power > 0: the
\* bits at the (1-based) positions in flips are inverted.
Flip(bits, flips) ==
    [i \in 1..Len(bits) |-> IF i \in flips THEN 1 - bits[i] ELSE bits[i]]

\* _decode_ais_packet on bits already carrying their bit errors, with
\* message_count as it is before the call: the count after it and the dict
\* returned (msg = <<>> stands for None).  The dict keeps the fields derived
\* from the bits, and the bits themselves.
decode_ais_packet(bits, count) ==
    LET msg_type == BitsValue(SubSeq(bits, 1, 6), 1, 0)
        mmsi == BitsValue(SubSeq(bits, 9, 38), 1, 0)
    IN  [count |-> count + 1,
         msg |-> IF msg_type >= 1 /\ msg_type <= 3 /\ Len(bits) >= 168
                 THEN <<[message_id |-> count + 1, mmsi |-> mmsi,
                         packet |-> bits]>>
                 ELSE <<>>]

\* The loop over packet_length in [168, 256, 424], from the k-th length on:
\* the first length that fits in the buffer and decodes is taken.
RECURSIVE TryLengths(_, _, _, _, _)
TryLengths(buf, packet_start, k, count, flips) ==
    IF k > Len(PACKET_LENGTHS)
    THEN [taken |-> 0, count |-> count, msg |-> <<>>]
    ELSE LET packet_length == PACKET_LENGTHS[k]
         IN  IF Len(buf) < packet_start + packet_length
             THEN TryLengths(buf, packet_start, k + 1, count, flips)
             ELSE LET packet_bits == Cut(buf, packet_start,
                                         packet_start + packet_length)
                      r == decode_ais_packet(Flip(packet_bits, flips), count)
                  IN  IF r.msg /= <<>>
                      THEN [taken |-> packet_length, count |-> r.count,
                            msg |-> r.msg]
                      ELSE TryLengths(buf, packet_start, k + 1, r.count, flips)

\* The while loop of _decode_ais_audio over the bit buffer.
RECURSIVE Hunt(_, _, _, _)
Hunt(buf, count, msgs, flips) ==
    IF Len(buf) < MIN_BUFFER
    THEN [buf |-> buf, count |-> count, msgs |-> msgs]
    ELSE LET preamble_pos == FindPreamble(buf)
             packet_start == preamble_pos + PREAMBLE_LEN
         IN  IF preamble_pos = -1
             THEN [buf |-> From(buf, Len(buf) - MIN_BUFFER),
                   count |-> count, msgs |-> msgs]
             ELSE IF Len(buf) < packet_start + MIN_PACKET
             THEN [buf |-> buf, count |-> count, msgs |-> msgs]
             ELSE LET t == TryLengths(buf, packet_start, 1, count, flips)
                  IN  IF t.taken > 0
                      THEN Hunt(From(buf, packet_start + t.taken), t.count,
                                msgs \o t.msg, flips)
                      ELSE Hunt(From(buf, preamble_pos + 1), t.count, msgs,
                                flips)

\* _decode_ais_audio once the clock recovery has turned the audio into bits:
\* NRZI decoding, destuffing, appending to the bit buffer, frame hunt.
decode_ais_audio(buf, count, bits, flips) ==
    Hunt(buf \o remove_bit_stuffing(nrzi_decode(bits)), count, <<>>, flips)
\* ------------------------------------- the transmitting side of the AIS link
\* NRZI encoding from the line level seed: a 0 is sent as a transition, a 1
\* as no transition, so the level after bit i is the seed inverted once for
\* every 0 among the first i bits.
nrzi_encode(bits, seed) ==
    LET zeros == [i \in 0..Len(bits) |->
                    Cardinality({j \in 1..i : bits[j] = 0})]
    IN  [i \in 1..Len(bits) |-> (seed + zeros[i]) % 2]

\* HDLC bit stuffing: a 0 is inserted after every five consecutive 1s.
StuffStep(s, bit) ==
    IF bit = 1 /\ s.ones = 4
    THEN [ones |-> 0, stuffed |-> s.stuffed \o <<1, 0>>]
    ELSE [ones |-> IF bit = 1 THEN s.ones + 1 ELSE 0,
          stuffed |-> Append(s.stuffed, bit)]

RECURSIVE StuffRun(_, _, _, _)
StuffRun(bits, lo, hi, s) ==
    IF lo > hi THEN s
    ELSE IF lo = hi THEN StuffStep(s, bits[lo])
    ELSE LET mid == (lo + hi) \div 2
             left == StuffRun(bits, lo, mid, s)
         IN  IF left = left THEN StuffRun(bits, mid + 1, hi, left) ELSE left

stuff(bits) == StuffRun(bits, 1, Len(bits), [ones |-> 0, stuffed |-> <<>>]).stuffed

\* CRC-16-CCITT by long division: the remainder, modulo x^16 + x^12 + x^5 + 1,
\* of the message followed by sixteen 0s with its first sixteen bits
\* complemented (the initial value 0xFFFF), as sixteen bits, most significant
\* first.
Generator == <<0, 0, 0, 1, 0, 0, 0, 0, 0, 0, 1, 0, 0, 0, 0, 1>>
Zeros16 == [i \in 1..16 |-> 0]

DivideStep(rem, bit) ==
    LET shifted == Append(Tail(rem), bit)
    IN  IF Head(rem) = 1
        THEN [k \in 1..16 |-> (shifted[k] + Generator[k]) % 2]
        ELSE shifted

RECURSIVE Divide(_, _, _, _)
Divide(m, lo, hi, rem) ==
    IF lo > hi THEN rem
    ELSE IF lo = hi THEN DivideStep(rem, m[lo])
    ELSE LET mid == (lo + hi) \div 2
             left == Divide(m, lo, mid, rem)
         IN  IF left = left THEN Divide(m, mid + 1, hi, left) ELSE left

CrcBits(d) ==
    LET aug == d \o Zeros16
        m == [i \in 1..Len(aug) |-> IF i <= 16 THEN 1 - aug[i] ELSE aug[i]]
    IN  Divide(m, 1, Len(m), Zeros16)

\* The n bits of the value v, most significant first.
ToBits(v, n) == [i \in 1..n |-> (v \div (2 ^ (n - i))) % 2]

\* An AIS frame of len bits: message type, repeat indicator, MMSI, padding,
\* and the CRC of all that (with its last bit inverted when good is false).
Frame(msg_type, mmsi, len, good) ==
    LET data == ToBits(msg_type, 6) \o <<0, 0>> \o ToBits(mmsi, 30)
                \o [i \in 1..(len - 16 - 38) |-> 0]
        crc == CrcBits(data)
    IN  data \o (IF good THEN crc ELSE [crc EXCEPT ![16] = 1 - crc[16]])

Preamble == [j \in 1..PREAMBLE_LEN |-> (j - 1) % 2]

\* What the clock recovery delivers for a frame on the air: lead idle bits,
\* the preamble, the frame and a tail, stuffed and NRZI encoded.
OnAir(lead, frame, tail) ==
    nrzi_encode(stuff([i \in 1..lead |-> 0] \o Preamble \o frame
                      \o [i \in 1..tail |-> 0]), 0)
\* ----------------------------------------- the bit functions put to use
\* Each action applies one function to the sequence drawn at the start
\* (input) or to the result of the step before (output); fn names the last
\* step taken.
FnStep(name, value) ==
    /\ output' = value
    /\ fn' = name
    /\ UNCHANGED <<input, aisVars, sstvVars, sdrVars, auxVars>>

NrziEncode(seed) ==
    /\ fn = "none"
    /\ FnStep(IF seed = 0 THEN "encoded_seed0" ELSE "encoded_seed1",
              nrzi_encode(input, seed))

NrziDecode ==
    /\ fn \in {"encoded_seed0", "encoded_seed1"}
    /\ FnStep(IF fn = "encoded_seed0" THEN "decoded_seed0" ELSE "decoded_seed1",
              nrzi_decode(output))

Stuff ==
    /\ fn = "none"
    /\ FnStep("stuffed", stuff(input))

RemoveBitStuffing ==
    /\ fn = "stuffed"
    /\ FnStep("destuffed", remove_bit_stuffing(output))

\* The sender appends the CRC to the data bits.
AppendCrc ==
    /\ fn = "none"
    /\ FnStep("framed", input \o CrcBits(input))

\* One bit of the frame is inverted on the way.
FlipBit(i) ==
    /\ fn = "framed"
    /\ i \in 1..Len(output)
    /\ FnStep("flipped", Flip(output, {i}))

VerifyAisCrc ==
    /\ fn \in {"framed", "flipped"}
    /\ FnStep(fn \o (IF verify_ais_crc(output) THEN "_ok" ELSE "_bad"), output)

\* One call of _decode_ais_audio: the clock recovery delivers the next k bits
\* of the stream (input is what is still to come, output what was delivered).
DecodeAisAudio(k, flips) ==
    /\ fn \in {"none", "fed"}
    /\ k \in 1..Len(input)
    /\ LET r == decode_ais_audio(bit_buffer, message_count,
                                 SubSeq(input, 1, k), flips)
       IN  /\ bit_buffer' = r.buf
           /\ message_count' = r.count
           /\ messages' = r.msgs
    /\ input' = SubSeq(input, k + 1, Len(input))
    /\ output' = output \o SubSeq(input, 1, k)
    /\ fn' = "fed"
    /\ UNCHANGED <<last_bit, sstvVars, sdrVars, auxVars>>

\* ---------------------------------------------------------------- SSTVDecoder
\* samples_per_pixel of _decode_sstv_audio, int(12000 * 0.146 / 320): the
\* length of the audio segment handed to the frequency detector for a pixel.
\* SamplesPerPixel stands for it in the arithmetic on chunk lengths.
samples_per_pixel == (12000 * 146) \div (1000 * 320)

\* The fewest samples for which detect_frequency_goertzel runs the FFT.
FFT_MIN_SAMPLES == 10

\* Tones an SSTV transmitter sends for a pixel: black, mid-grey and white.
PixelTones == {1500, 1900, 2300}

\* The positive-frequency FFT bins of an n-sample segment at 12000 samples
\* per second that fall within 1500..2300 Hz (np.fft.fftfreq, the mask), by
\* bin number.
BinsInRange(n) ==
    {k \in 0..(n \div 2 - 1) : k * 12000 >= 1500 * n /\ k * 12000 <= 2300 * n}

\* argmax over the bins in range for a segment holding a pure tone: the bin
\* nearest to the tone, the lowest of them on a tie.
PeakBin(n, tone) ==
    CHOOSE k \in BinsInRange(n) :
        \A j \in BinsInRange(n) :
            \/ Abs(k * 12000 - tone * n) < Abs(j * 12000 - tone * n)
            \/ Abs(k * 12000 - tone * n) = Abs(j * 12000 - tone * n) /\ k <= j

\* SSTVSync.detect_frequency_goertzel on a segment of n samples that holds
\* the tone, in whole Hz.
detect_frequency_goertzel(n, tone) ==
    IF n < FFT_MIN_SAMPLES THEN 1900
    ELSE IF BinsInRange(n) = {} THEN 1900
    ELSE (PeakBin(n, tone) * 12000) \div n

\* Dominant frequencies detected in a pixel's audio.
Tones == {detect_frequency_goertzel(samples_per_pixel, tone) : tone \in PixelTones}

\* The frequency to grey mapping of _decode_sstv_audio.
GrayValue(freq) ==
    IF freq < 1500 THEN 0
    ELSE IF freq > 2300 THEN 255
    ELSE Max(0, Min(((freq - 1500) * 255) \div 800, 255))

\* np.zeros((HEIGHT, WIDTH, 3)): the three colour values of a pixel are always
\* equal, so a pixel is its grey value.
BlankImage ==
    [l \in 0..(MARTIN_M1_HEIGHT - 1) |-> [c \in 0..(MARTIN_M1_WIDTH - 1) |-> 0]]

\* A message sent on the websocket; line_number is -1 except for scan lines.
Event(type, line_number) == [type |-> type, line_number |-> line_number]

\* The image-complete test at the top of the pixel loop, taken one line late.
ImageDoneLate(line) == line > MARTIN_M1_HEIGHT

\* The image-complete test at the top of the pixel loop.
ImageDone(line) == line >= MARTIN_M1_HEIGHT

\* The pixel loop of _decode_sstv_audio from pixel i of n: s holds the line,
\* the column, the image and the events sent so far; done is set when the
\* loop returns the image data, raised when the image is indexed outside its
\* lines (IndexError).
RECURSIVE PixelLoop(_, _, _, _)
PixelLoop(i, n, s, freq) ==
    IF i >= n \/ s.done \/ s.raised THEN s
    ELSE IF ImageDone(s.line) THEN [s EXCEPT !.done = TRUE]
    ELSE IF s.line \notin DOMAIN s.image THEN [s EXCEPT !.raised = TRUE]
    ELSE LET img == [s.image EXCEPT ![s.line][s.col] = GrayValue(freq)]
             wrap == s.col + 1 >= MARTIN_M1_WIDTH
         IN  PixelLoop(i + 1, n,
                 [s EXCEPT !.image = img,
                           !.col = IF wrap THEN 0 ELSE s.col + 1,
                           !.line = IF wrap THEN s.line + 1 ELSE s.line,
                           !.events = IF wrap
                                      THEN Append(s.events,
                                                  Event("scan_line", s.line))
                                      ELSE s.events],
                 freq)

\* _decode_sstv_audio on len_audio samples of dominant frequency freq.
decode_sstv_audio(line, col, image, len_audio, freq) ==
    PixelLoop(0, len_audio \div SamplesPerPixel,
              [line |-> line, col |-> col, image |-> image, events |-> <<>>,
               done |-> FALSE, raised |-> FALSE],
              freq)

\* decode_stream finds a file it has not loaded: new reader, state reset,
\* _init_image, file_info sent.
SstvLoad ==
    /\ decode_state /= "FAILED"
    /\ decode_state' = "WAITING_FOR_VIS"
    /\ audio_buffer' = 0
    /\ vis_wait_time' = 0
    /\ current_image' = BlankImage
    /\ current_line' = 0
    /\ current_col' = 0
    /\ events' = <<Event("file_info", -1)>>
    /\ UNCHANGED <<fnVars, aisVars, sdrVars, auxVars>>

\* The timeout test of WAITING_FOR_VIS, taken a second of audio late.
VisTimedOutLate(wait) == wait > 6 * AUDIO_RATE

\* The timeout test of WAITING_FOR_VIS: vis_wait_time > 5.0, with the time
\* counted in audio samples.
VisTimedOut(wait) == wait > 5 * AUDIO_RATE

\* One iteration of decode_stream's loop with the file loaded and a chunk
\* that gives len_audio audio samples; vis and sync are what decode_vis_code
\* and detect_sync_pulse answer if called, freq the tone of the chunk.
SstvWaitVis(len_audio, vis) ==
    LET buf == audio_buffer + len_audio
        wait == vis_wait_time + len_audio
        checked == buf > 2 * AUDIO_RATE
        matched == checked /\ vis
        timeout == VisTimedOut(wait)
    IN  /\ vis_wait_time' = wait
        /\ audio_buffer' = IF matched THEN 0
                           ELSE IF checked /\ buf > 4 * AUDIO_RATE
                                THEN 2 * AUDIO_RATE
                                ELSE buf
        /\ decode_state' = IF timeout THEN "DECODING"
                           ELSE IF matched THEN "WAITING_FOR_SYNC"
                           ELSE decode_state
        /\ events' = (IF matched THEN <<Event("status", -1)>> ELSE <<>>)
                     \o (IF timeout THEN <<Event("status", -1)>> ELSE <<>>)
        /\ UNCHANGED <<current_line, current_col, current_image>>

SstvWaitSync(len_audio, sync) ==
    LET buf == audio_buffer + len_audio
        checked == 2 * buf > AUDIO_RATE
    IN  /\ decode_state' = IF checked /\ sync THEN "DECODING" ELSE decode_state
        /\ events' = IF checked /\ sync THEN <<Event("status", -1)>> ELSE <<>>
        /\ audio_buffer' = IF checked /\ buf > AUDIO_RATE
                           THEN AUDIO_RATE \div 2
                           ELSE buf
        /\ UNCHANGED <<current_line, current_col, current_image, vis_wait_time>>

SstvDecoding(len_audio, freq) ==
    LET r == decode_sstv_audio(current_line, current_col, current_image,
                               len_audio, freq)
    IN  /\ audio_buffer' = audio_buffer + len_audio
        /\ IF r.raised
           THEN /\ decode_state' = "FAILED"
                /\ events' = Append(r.events, Event("error", -1))
                /\ current_image' = r.image
                /\ current_line' = r.line
                /\ current_col' = r.col
           ELSE IF r.done
           THEN /\ decode_state' = "WAITING_FOR_SYNC"
                /\ events' = Append(r.events, Event("image_complete", -1))
                /\ current_image' = BlankImage
                /\ current_line' = 0
                /\ current_col' = 0
           ELSE /\ decode_state' = decode_state
                /\ events' = r.events
                /\ current_image' = r.image
                /\ current_line' = r.line
                /\ current_col' = r.col
        /\ UNCHANGED vis_wait_time

SstvChunk(len_audio, vis, sync, freq) ==
    /\ current_image /= None
    /\ audio_buffer + len_audio <= MaxBuffer
    /\ \/ decode_state = "WAITING_FOR_VIS" /\ SstvWaitVis(len_audio, vis)
       \/ decode_state = "WAITING_FOR_SYNC" /\ SstvWaitSync(len_audio, sync)
       \/ decode_state = "DECODING" /\ SstvDecoding(len_audio, freq)
    /\ UNCHANGED <<fnVars, aisVars, sdrVars, auxVars>>

\* The same iteration on a chunk whose audio holds the tone: every pixel's
\* segment of samples_per_pixel samples goes through the frequency detector
\* (_decode_sstv_audio, self.sstv_sync being set once a file is loaded).
SstvFeed(len_audio, vis, sync, tone) ==
    SstvChunk(len_audio, vis, sync,
              detect_frequency_goertzel(samples_per_pixel, tone))

\* ------------------------------------------------------------ MetricsAnalyzer
\* SNR values handed to the BER table, in steps of 1 / SnrSteps dB.
SnrValues == (-2 * SnrSteps)..(17 * SnrSteps)

\* The BER table of _analyze_chunk; snr is in steps of 1 / SnrSteps dB and the
\* result in units of 1e-5.
ber_of(snr) ==
    IF snr > 15 * SnrSteps THEN 1
    ELSE IF snr > 12 * SnrSteps THEN 10
    ELSE IF snr > 10 * SnrSteps THEN 100
    ELSE IF snr > 8 * SnrSteps THEN 1000
    ELSE IF snr > 6 * SnrSteps THEN 5000
    ELSE IF snr > 4 * SnrSteps THEN 15000
    ELSE IF snr > 2 * SnrSteps THEN 30000
    ELSE IF snr > 0 THEN 40000
    ELSE 50000

\* Seconds slept between a failed chunk read and the reconnect.
RECONNECT_DELAY == 1

\* Chunks between two iq_plots messages.
PLOT_UPDATE_INTERVAL == 5

\* RTLTCPClient.connect: the connection is made and the header read when the
\* server accepts connections, any failure gives False.
ClientConnect ==
    /\ connected' = server_up
    /\ link' = server_up

\* RTLTCPClient.get_chunk returns the samples: the client is connected and
\* its TCP stream delivers the bytes.
ChunkArrives == connected /\ link

\* analyze_stream up to the main loop.
AnalyzeStart ==
    /\ an_pc = "new"
    /\ an_running' = TRUE
    /\ ClientConnect
    /\ IF server_up
       THEN /\ an_events' = <<"status", "file_info">>
            /\ an_pc' = "loop"
       ELSE /\ an_events' = <<"error">>
            /\ an_pc' = "ended"
    /\ UNCHANGED <<server_up, playing, metrics, chunk_counter, attempts,
                   backoff>>
    /\ UNCHANGED <<fnVars, aisVars, sstvVars, sdrVars, raceVars, gardVars>>

\* The loop test finds the stop flag set; the finally clause closes the
\* client.
AnalyzeExit ==
    /\ an_pc = "loop"
    /\ ~an_running
    /\ an_pc' = "ended"
    /\ connected' = FALSE
    /\ an_events' = <<>>
    /\ UNCHANGED <<an_running, link, server_up, playing, metrics,
                   chunk_counter, attempts, backoff>>
    /\ UNCHANGED <<fnVars, aisVars, sstvVars, sdrVars, raceVars, gardVars>>

\* One iteration while playback is not active.
AnalyzePaused ==
    /\ an_pc = "loop"
    /\ an_running
    /\ ~playing
    /\ an_events' = <<"status">>
    /\ UNCHANGED <<an_pc, an_running, connected, link, server_up, playing,
                   metrics, chunk_counter, attempts, backoff>>
    /\ UNCHANGED <<fnVars, aisVars, sstvVars, sdrVars, raceVars, gardVars>>

\* One iteration on a chunk whose SNR calculate_snr finds to be snr.
AnalyzeChunk(snr) ==
    /\ an_pc = "loop"
    /\ an_running
    /\ playing
    /\ ChunkArrives
    /\ metrics' = <<snr, ber_of(snr)>>
    /\ IF chunk_counter + 1 >= PLOT_UPDATE_INTERVAL
       THEN /\ chunk_counter' = 0
            /\ an_events' = <<"metrics", "iq_plots">>
       ELSE /\ chunk_counter' = chunk_counter + 1
            /\ an_events' = <<"metrics">>
    /\ UNCHANGED <<an_pc, an_running, connected, link, server_up, playing,
                   attempts, backoff>>
    /\ UNCHANGED <<fnVars, aisVars, sstvVars, sdrVars, raceVars, gardVars>>

\* One iteration in which get_chunk returns None, up to the sleep.
AnalyzeLost ==
    /\ an_pc = "loop"
    /\ an_running
    /\ playing
    /\ ~ChunkArrives
    /\ connected' = FALSE
    /\ an_pc' = "backoff"
    /\ an_events' = <<>>
    /\ UNCHANGED <<an_running, link, server_up, playing, metrics,
                   chunk_counter, attempts, backoff>>
    /\ UNCHANGED <<fnVars, aisVars, sstvVars, sdrVars, raceVars, gardVars>>

\* The same iteration from the end of the sleep: the reconnect, and the
\* break out of the loop (with the finally clause) when it fails.
AnalyzeReconnect ==
    /\ an_pc = "backoff"
    /\ attempts < MaxAttempts
    /\ backoff' = RECONNECT_DELAY
    /\ attempts' = attempts + 1
    /\ ClientConnect
    /\ IF server_up
       THEN /\ an_pc' = "loop"
            /\ an_events' = <<>>
       ELSE /\ an_pc' = "ended"
            /\ an_events' = <<"error">>
    /\ UNCHANGED <<an_running, server_up, playing, metrics, chunk_counter>>
    /\ UNCHANGED <<fnVars, aisVars, sstvVars, sdrVars, raceVars, gardVars>>

\* MetricsAnalyzer.stop.
AnalyzeStop ==
    /\ an_pc /= "new"
    /\ an_running
    /\ an_running' = FALSE
    /\ UNCHANGED <<an_pc, connected, link, server_up, playing, metrics,
                   chunk_counter, attempts, backoff, an_events>>
    /\ UNCHANGED <<fnVars, aisVars, sstvVars, sdrVars, raceVars, gardVars>>

\* The dongle-emulation server goes away, breaking the client's stream, or
\* accepts connections again.
ServerDown ==
    /\ server_up
    /\ server_up' = FALSE
    /\ link' = FALSE
    /\ UNCHANGED <<an_pc, an_running, connected, playing, metrics,
                   chunk_counter, attempts, backoff, an_events>>
    /\ UNCHANGED <<fnVars, aisVars, sstvVars, sdrVars, raceVars, gardVars>>

ServerUp ==
    /\ ~server_up
    /\ server_up' = TRUE
    /\ UNCHANGED <<an_pc, an_running, connected, link, playing, metrics,
                   chunk_counter, attempts, backoff, an_events>>
    /\ UNCHANGED <<fnVars, aisVars, sstvVars, sdrVars, raceVars, gardVars>>

\* on_mqtt_message: the status snapshot sets current_state["playing"].
SetPlaying(b) ==
    /\ playing /= b
    /\ playing' = b
    /\ UNCHANGED <<an_pc, an_running, connected, link, server_up, metrics,
                   chunk_counter, attempts, backoff, an_events>>
    /\ UNCHANGED <<fnVars, aisVars, sstvVars, sdrVars, raceVars, gardVars>>

\* ------------------------------------- get_chunk, one statement at a time
\* The MQTT client's thread runs play, pause, stop and switch_file while the
\* event-loop thread is inside get_chunk: the call is followed statement by
\* statement from the running/paused test to the store of the new offset.
ChunkFrame ==
    UNCHANGED <<mixerVars, serverVars, netVars, pc, nread, mixed, gen, obsVars,
                fnVars, aisVars, sstvVars, metVars, gardVars>>

\* get_chunk(n) is called on a player that is running and not paused:
\* "if self.samples is None: self.load_file()".
ChunkEnter(n) ==
    /\ gc.step = "idle"
    /\ ~ChunkBlocked(PlayerState)
    /\ ~ChunkRaises(PlayerState)
    /\ SetPlayer(ChunkLoaded(PlayerState))
    /\ gc' = [GcIdle EXCEPT !.step = "end", !.n = n]
    /\ chunk' = chunk
    /\ ChunkFrame

\* end_pos = min(self.position + chunk_size, len(self.samples))
ChunkEndPos ==
    /\ gc.step = "end"
    /\ gc' = [gc EXCEPT !.step = "slice",
                        !.end_pos = EndPos(position, gc.n, Len(samples))]
    /\ UNCHANGED <<playerVars, chunk>>
    /\ ChunkFrame

\* chunk = self.samples[self.position:end_pos]
ChunkSlice ==
    /\ gc.step = "slice"
    /\ chunk' = Slice(samples, position, gc.end_pos)
    /\ gc' = [gc EXCEPT !.step = "store"]
    /\ UNCHANGED playerVars
    /\ ChunkFrame

\* "if end_pos >= len(self.samples): self.position = 0, else:
\* self.position = end_pos"; the call returns after its pacing sleep.
ChunkStore ==
    /\ gc.step = "store"
    /\ position' = NextPosition(gc.end_pos, Len(samples))
    /\ gc' = GcIdle
    /\ UNCHANGED <<file_path, samples, running, paused, chunk>>
    /\ ChunkFrame

\* ------------------------------------------------------ GardnerClockRecovery
\* Values of an audio sample.
SampleValues == {-1, 0, 1}

\* int(x) for a time x: truncation towards zero, in whole samples.
IntPart(x) == IF x >= 0 THEN x \div TimeUnit ELSE -((-x) \div TimeUnit)

\* The constants of __init__ for the AIS decoder's loop_bandwidth = 0.01.
OMEGA_LIM == TimeUnit \div 2
GAIN_MU == TimeUnit \div 100
GAIN_OMEGA == TimeUnit \div (4 * 100 * 100)

\* np.clip(omega, omega_mid - omega_lim, omega_mid + omega_lim)
ClipOmega(omega) ==
    Max(SamplesPerBit - OMEGA_LIM, Min(omega, SamplesPerBit + OMEGA_LIM))

\* samples[k] with Python's indexing: a negative k counts from the end, and
\* the index is in range for -len <= k < len.
IndexInRange(s, k) == k >= -Len(s) /\ k < Len(s)
At(s, k) == IF k >= 0 THEN s[k + 1] ELSE s[Len(s) + k + 1]

\* The test of process's while loop.
LoopTest(c, s) == c.i < Len(s) - IntPart(c.omega)

\* One pass through the body of the loop from "curr_sample = ..." on, for
\* the loop state c, the samples s and the decision index curr_idx.
LoopBody(c, s, curr_idx) ==
    LET curr_sample == At(s, curr_idx)
        twice == 2 * (c.i * TimeUnit + c.mu) - c.omega
        mid_idx == IF twice >= 0 THEN twice \div (2 * TimeUnit)
                   ELSE -((-twice) \div (2 * TimeUnit))
        mid_sample == IF mid_idx >= 0 /\ mid_idx < Len(s)
                      THEN At(s, mid_idx) ELSE c.mid_sample
        timing_error == (curr_sample - c.last_sample) * mid_sample
        omega == ClipOmega(c.omega + GAIN_OMEGA * timing_error)
        mu == c.mu + GAIN_MU * timing_error - IntPart(omega) * TimeUnit
        i == c.i + IntPart(omega)
    IN  [mu |-> IF mu < 0 THEN mu + omega ELSE mu,
         omega |-> omega,
         i |-> IF mu < 0 THEN i - 1 ELSE i,
         last_sample |-> curr_sample,
         mid_sample |-> mid_sample]

\* process(samples) is called: bits = [], i = 0, last_sample = mid_sample = 0;
\* mu and omega are the object's.
ProcessEnter ==
    /\ fn = "none"
    /\ fn' = "process"
    /\ output' = <<>>
    /\ clock' = [clock EXCEPT !.i = 0, !.last_sample = 0, !.mid_sample = 0]
    /\ UNCHANGED <<input, aisVars, sstvVars, sdrVars, metVars, raceVars>>

\* One iteration of the while loop: the break when the decision index is
\* past the end, an IndexError when it is before the start, or the body with
\* the bit appended.
ProcessIter ==
    /\ fn = "process"
    /\ LoopTest(clock, input)
    /\ Len(output) < MaxIters
    /\ LET curr_idx == IntPart(clock.i * TimeUnit + clock.mu)
       IN  IF curr_idx >= Len(input)
           THEN fn' = "returned" /\ UNCHANGED <<output, clock>>
           ELSE IF ~IndexInRange(input, curr_idx)
           THEN fn' = "raised" /\ UNCHANGED <<output, clock>>
           ELSE /\ fn' = fn
                /\ output' = Append(output,
                                    IF At(input, curr_idx) > 0 THEN 1 ELSE 0)
                /\ clock' = LoopBody(clock, input, curr_idx)
    /\ UNCHANGED <<input, aisVars, sstvVars, sdrVars, metVars, raceVars>>

\* The loop test fails: return bits.
ProcessReturn ==
    /\ fn = "process"
    /\ ~LoopTest(clock, input)
    /\ fn' = "returned"
    /\ UNCHANGED <<input, output, clock>>
    /\ UNCHANGED <<aisVars, sstvVars, sdrVars, metVars, raceVars>>

\* ------------------------------------------------------------ specifications
\* The service as main() starts it, two clients connecting, the operator
\* driving playback over MQTT.
Init ==
    /\ PlayerIs(PlayerNew(MaxLen))
    /\ MixerIs(MixerNew)
    /\ ServerInit /\ NetInit /\ LoopInit /\ ObsInit /\ DecInit

Next ==
    \/ GetChunk
    \/ WakeIdle
    \/ \E F \in SUBSET Conns : MixBroadcast(F)
    \/ \E c \in Conns : Accept(c)
    \/ \E c \in Conns : Register(c)
    \/ \E c \in Conns : DrainFail(c)
    \/ \E c \in Conns : ReadCmd(c)
    \/ \E c \in Conns : Finish(c)
    \/ \E c \in Conns : PeerClose(c)
    \/ \E c \in Conns : Flush(c)
    \/ \E command \in {"play", "pause"} : Mqtt(command, 0)

Spec == Init /\ [][Next]_vars

\* The player alone, driven through its API by any sequence of calls.
InitPlayer ==
    /\ \E p \in Paths : PlayerIs(PlayerNew(p))
    /\ MixerIs(MixerNew)
    /\ ServerInit /\ NetInit /\ LoopInit /\ ObsInit /\ DecInit

NextPlayer ==
    \/ \E p \in Paths : ApiLoad(p)
    \/ ApiPlay
    \/ ApiPause
    \/ ApiStop
    \/ \E p \in Paths : ApiSwitch(p)
    \/ \E n \in 1..MaxChunk : ApiChunk(n)

SpecPlayer == InitPlayer /\ [][NextPlayer]_vars

\* One client tuning the server while a file plays. The operator has set the
\* jammer up over MQTT and pressed play before the client connects.
JamFreqs == {DEFAULT_FREQ, 100800000}
Commands == {<<1, 100400000>>, <<2, 2048000>>, <<2, 0>>, <<3, 1>>, <<4, 200>>,
             <<5, 0>>, <<9, 7>>}
\* How many bytes of a 5-byte record arrive in its first segment.
SplitPoints == {2, 5}
Configured(en, t, f) ==
    LET a == handle_command(PlayerNew(MaxLen), MixerNew, "set_jam_type", t)
        b == handle_command(a.p, a.m, "set_jam_frequency", f)
        c == IF en THEN handle_command(b.p, b.m, "enable_jamming", 0) ELSE b
    IN  handle_command(c.p, c.m, "play", 0)

InitCmd ==
    /\ \E t \in VALID_TYPES, f \in JamFreqs :
          /\ PlayerIs(Configured(TRUE, t, f).p)
          /\ MixerIs(Configured(TRUE, t, f).m)
    /\ ServerInit /\ NetInit /\ LoopInit /\ ObsInit /\ DecInit

NextCmd ==
    \/ GetChunk
    \/ MixBroadcast({})
    \/ Accept(1)
    \/ Register(1)
    \/ ReadCmd(1)
    \/ Finish(1)
    \/ \E r \in Commands, k \in SplitPoints : PeerSend(1, r[1], r[2], k)
    \/ DeliverRest(1)
    \/ PeerClose(1)

SpecCmd == InitCmd /\ [][NextCmd]_vars

\* The mixer alone, driven through its API by any sequence of calls. The
\* target 100.512 MHz lies exactly half the default sample rate above the
\* default centre.
CentreFreqs == {DEFAULT_FREQ, 100400000}
TargetFreqs == {DEFAULT_FREQ, 100512000, 100800000}
SampleRates == {SAMPLE_RATE, 2048000}
Kinds == VALID_TYPES \cup {"laser"}
\* jamming powers in tenths: -0.5, 0.0, 0.5, 1.5
Powers == {-5, 0, 5, 15}

InitMixer ==
    /\ PlayerIs(PlayerNew(MaxLen))
    /\ MixerIs(MixerNew)
    /\ ServerInit /\ NetInit /\ LoopInit /\ ObsInit /\ DecInit

NextMixer ==
    \/ \E f \in CentreFreqs : MixerSetFrequency(f)
    \/ \E r \in SampleRates : MixerSetSampleRate(r)
    \/ \E f \in TargetFreqs : MixerSetJammingFrequency(f)
    \/ MixerEnable
    \/ MixerDisable
    \/ \E t \in Kinds : MixerSetType(t)
    \/ \E p \in Powers : MixerSetPower(p)
    \/ \E n \in 1..MaxMix : MixerMix(n)

SpecMixer == InitMixer /\ [][NextMixer]_vars

\* The service driven over the control bus alone: no client is connected,
\* the operator plays, swaps files and configures the jammer while the
\* stream loop runs.
PlainCommands == {"play", "stop", "jamming_cw", "disable_jamming"}
\* The files the operator swaps between, and the kinds asked for.
SwapPaths == {2, MaxLen}
CtlKinds == {"barrage", "spot", "laser"}

NextCtl ==
    \/ GetChunk
    \/ WakeIdle
    \/ MixBroadcast({})
    \/ \E command \in PlainCommands : Mqtt(command, 0)
    \/ \E p \in SwapPaths : Mqtt("switch_iq", p)
    \/ \E t \in CtlKinds : Mqtt("set_jam_type", t)
    \/ \E f \in JamFreqs : Mqtt("set_jam_frequency", f)

SpecCtl == Init /\ [][NextCtl]_vars

\* The mixer with a spot jammer enabled at the tuned centre, chunks being
\* mixed on the event-loop thread while the operator changes the jammer over
\* the control bus.
RaceKinds == {"spot", "sweep"}
RacePowers == {5}

InitRace ==
    /\ PlayerIs(Configured(TRUE, "spot", DEFAULT_FREQ).p)
    /\ MixerIs(Configured(TRUE, "spot", DEFAULT_FREQ).m)
    /\ ServerInit /\ NetInit /\ LoopInit /\ ObsInit /\ DecInit

NextRace ==
    \/ GenEnter(ChunkSize)
    \/ GenType
    \/ GenOffset
    \/ GenBand
    \/ GenT
    \/ GenRate
    \/ GenPower
    \/ GenLoad
    \/ GenStore
    \/ \E f \in JamFreqs : Mqtt("set_jam_frequency", f)
    \/ \E t \in RaceKinds : Mqtt("set_jam_type", t)
    \/ \E a \in RacePowers : Mqtt("set_jam_power", a)

SpecRace == InitRace /\ [][NextRace]_vars

\* One sample, of components between -2 and 2, quantized by the server and
\* read back by the client.
InitQuant ==
    /\ SdrIdle /\ AisIdle /\ SstvIdle /\ AuxIdle
    /\ input \in Components \X Components
    /\ output = <<>> /\ fn = "none"

NextQuant ==
    \/ BroadcastQuantize
    \/ ClientDequantize

SpecQuant == InitQuant /\ [][NextQuant]_vars

\* The bit-level functions of clock_recovery on every bit sequence of at
\* most MaxBits bits, and the AIS bit pipeline fed such a sequence in pieces.
InitBits ==
    /\ SdrIdle /\ AisIdle /\ SstvIdle /\ AuxIdle
    /\ input \in BitSeqs(MaxBits)
    /\ output = <<>> /\ fn = "none"

NextBits ==
    \/ \E seed \in Bits : NrziEncode(seed)
    \/ NrziDecode
    \/ Stuff
    \/ RemoveBitStuffing
    \/ AppendCrc
    \/ \E i \in 1..(MaxBits + 16) : FlipBit(i)
    \/ VerifyAisCrc
    \/ \E k \in 1..MaxBits : DecodeAisAudio(k, {})

SpecBits == InitBits /\ [][NextBits]_vars

\* The AIS decoder receiving one frame: message types 0, 1 and 4, two MMSIs,
\* each of the three frame lengths, with a right and with a wrong CRC.
FrameTypes == {0, 1, 4}
FrameMmsis == {1, 9}
FrameLeads == {0, 1}
FrameTail == 64
FrameStreams(tail) ==
    {OnAir(lead, Frame(t, m, PACKET_LENGTHS[l], good), tail) :
        lead \in FrameLeads, t \in FrameTypes, m \in FrameMmsis,
        l \in 1..3, good \in BOOLEAN}

\* Bit errors of a jammed decode: none, or the last bit of the message type.
FlipSets == {{}, {6}}

InitAis ==
    /\ SdrIdle /\ AisIdle /\ SstvIdle /\ AuxIdle
    /\ input \in FrameStreams(FrameTail)
    /\ output = <<>> /\ fn = "none"

NextAis ==
    \E flips \in FlipSets : DecodeAisAudio(Len(input), flips)

SpecAis == InitAis /\ [][NextAis]_vars

\* The SSTV decoder fed audio chunks, the operator selecting a file.
InitSstv ==
    SdrIdle /\ FnIdle /\ AisIdle /\ SstvIdle /\ AuxIdle

NextSstv ==
    \/ SstvLoad
    \/ \E len_audio \in 1..MaxAudio, vis \in BOOLEAN, sync \in BOOLEAN,
          tone \in PixelTones :
           SstvFeed(len_audio, vis, sync, tone)

SpecSstv == InitSstv /\ [][NextSstv]_vars

InitMetrics ==
    SdrIdle /\ FnIdle /\ AisIdle /\ SstvIdle /\ AuxIdle

NextMetrics ==
    \/ AnalyzeStart
    \/ AnalyzeExit
    \/ AnalyzePaused
    \/ \E snr \in SnrValues : AnalyzeChunk(snr)
    \/ AnalyzeLost
    \/ AnalyzeReconnect
    \/ AnalyzeStop
    \/ ServerDown
    \/ ServerUp
    \/ \E b \in BOOLEAN : SetPlaying(b)

SpecMetrics == InitMetrics /\ [][NextMetrics]_vars

\* A chunk call of the stream loop's size against the playback commands of
\* the control bus.
PlaybackCommands == {"play", "pause", "stop"}

InitChunkRace ==
    /\ \E p \in 1..MaxLen : PlayerIs(PlayerNew(p))
    /\ MixerIs(MixerNew)
    /\ ServerInit /\ NetInit /\ LoopInit /\ ObsInit /\ DecInit

NextChunkRace ==
    \/ ChunkEnter(ChunkSize)
    \/ ChunkEndPos
    \/ ChunkSlice
    \/ ChunkStore
    \/ \E command \in PlaybackCommands : Mqtt(command, 0)
    \/ \E p \in Paths : Mqtt("switch_iq", p)

SpecChunkRace == InitChunkRace /\ [][NextChunkRace]_vars

\* The clock recovery of the AIS decoder called on a short array of samples,
\* from the state the constructor leaves and from timing states anywhere in
\* the range omega is clamped to.
SampleArrays ==
    UNION {[1..n -> SampleValues] : n \in 1..MaxSamples}
OmegaValues ==
    {SamplesPerBit - OMEGA_LIM, (9 * TimeUnit) \div 10, TimeUnit,
     SamplesPerBit, SamplesPerBit + OMEGA_LIM}
MuValues == {0, TimeUnit \div 2}

InitGardner ==
    /\ SdrIdle /\ AisIdle /\ SstvIdle /\ MetIdle /\ gc = GcIdle
    /\ input \in SampleArrays
    /\ output = <<>> /\ fn = "none"
    /\ \E mu \in MuValues, omega \in OmegaValues :
           clock = [ClockNew(SamplesPerBit) EXCEPT !.mu = mu, !.omega = omega]

NextGardner ==
    \/ ProcessEnter
    \/ ProcessIter
    \/ ProcessReturn

SpecGardner == InitGardner /\ [][NextGardner]_vars

\* ------------------------------------------------------------------- claims
Last(q) == q[Len(q)]
Ceil(a, b) == (a + b - 1) \div b
RTL0Header == <<82, 84, 76, 48, 0, 0, 0, 1, 0, 0, 0, 29>>

\* C1: every connection's first write is the 12 header bytes "RTL0",
\* u32_be(1), u32_be(29): a connection in the broadcast list has already
\* been written its header, and a sample write is never a connection's
\* first write.
C1_HeaderBeforeSamples ==
    \A c \in Conns :
        /\ InList(clients, c) =>
              /\ Len(out[c]) >= 1
              /\ out[c][1].seq = 0
              /\ out[c][1].bytes = RTL0Header
        /\ \A i \in 1..Len(out[c]) :
              out[c][i].seq > 0 =>
                  /\ i > 1
                  /\ out[c][1].seq = 0
                  /\ out[c][1].bytes = RTL0Header

\* A connection accepted while the pipeline was already streaming: its
\* header is followed by the second chunk.
C1_Witness ==
    \E c \in Conns :
        /\ Len(out[c]) >= 2
        /\ out[c][1].seq = 0
        /\ out[c][2].seq = 2

\* C2: every connection receives the chunks in the order the pipeline read
\* them: the chunk numbers written to a connection increase, and from its
\* first chunk on a connection is written each following chunk in turn.
C2_ReadOrder ==
    \A c \in Conns :
        \A i \in 1..Len(out[c]) :
            /\ \A j \in 1..Len(out[c]) :
                  i < j => out[c][i].seq < out[c][j].seq
            /\ (i >= 2 /\ i < Len(out[c])) =>
                  out[c][i + 1].seq = out[c][i].seq + 1

\* Two connections that each received the header and two chunks.
C2_Witness ==
    \A c \in Conns :
        /\ Len(out[c]) >= 3
        /\ out[c][2].seq = 1
        /\ out[c][3].seq = 2

\* C3: the broadcast of a chunk never waits for a client: whenever the
\* pipeline holds a chunk the mix-and-broadcast step can be taken, whatever
\* the clients have left unread, and a client that has received a chunk has
\* received every chunk up to the latest one broadcast.
C3_NoStall ==
    /\ pc = "pace" => ENABLED MixBroadcast({})
    /\ \A c \in Conns :
          (InList(clients, c) /\ Len(out[c]) >= 2) =>
              Last(out[c]).seq = IF pc = "pace" THEN nread - 1 ELSE nread

\* One client has read nothing of the header and two chunks written to it,
\* and the other has received and read both chunks.
C3_Witness ==
    \E c, d \in Conns :
        /\ c /= d
        /\ InList(clients, c) /\ InList(clients, d)
        /\ sockbuf[c] = 3
        /\ sockbuf[d] = 0
        /\ Len(out[d]) >= 3
        /\ Last(out[d]).seq = 2
        /\ pc = "loop"

\* C4: a connection whose write failed during a broadcast is out of the
\* client list and its socket is closed.
C4_FailedWriteCloses ==
    \A c \in werr : ~InList(clients, c) /\ closed[c]

\* C5: a session ends only when the peer has closed or a write to it has
\* failed; in particular not on a record that arrives in two segments.
C5_EndsOnlyOnClose ==
    \A c \in Conns :
        sess[c] \in {"fin", "done"} => (eof[c] \/ c \in werr)

\* C6: a parsed command is one the peer sent; after 0x01 with parameter p
\* the tuning centre is p, after 0x02 with parameter p the tuned sample rate
\* is p, and either leaves the phase counter at 0. The chunk mixed next is
\* generated for the passband as it then stands: an enabled spot jammer of
\* positive amplitude is a tone at offset fj - fc in every sample when
\* |fj - fc| < fs/2 and is zero in every sample otherwise.
C6_Retune ==
    [][
        /\ ncmd' = ncmd + 1 =>
              /\ lastcmd' \in Commands
              /\ lastcmd'[1] = 1 =>
                    (current_freq' = lastcmd'[2] /\ sample_counter' = 0)
              /\ lastcmd'[1] = 2 =>
                    (sample_rate' = lastcmd'[2] /\ sample_counter' = 0)
        /\ (/\ pc = "pace" /\ pc' = "loop"
            /\ jamming_enabled /\ jamming_type = "spot" /\ jamming_power > 0) =>
              /\ Len(mixed') = Len(chunk)
              /\ \A i \in 1..Len(mixed') :
                    IF 2 * Abs(jamming_frequency - current_freq) < sample_rate
                    THEN /\ mixed'[i][2][1] = "tone"
                         /\ mixed'[i][2][2] = jamming_power
                         /\ mixed'[i][2][3] = jamming_frequency - current_freq
                         /\ mixed'[i][2][4] = sample_rate
                    ELSE mixed'[i][2] = <<"zero", 0, 0, 0, 0, 0>>
    ]_vars

\* A spot jammer at 100.8 MHz was silent in the first chunk (centre 100 MHz,
\* 1.024 MHz wide); the client retuned to 100.4 MHz and the second chunk
\* carries the tone at +400 kHz.
C6_Witness ==
    /\ jamming_type = "spot" /\ jamming_frequency = 100800000
    /\ lastcmd = <<1, 100400000>>
    /\ current_freq = 100400000
    /\ Len(out[1]) >= 3
    /\ out[1][2].seq = 1
    /\ out[1][2].bytes[1][2][2][1] = "zero"
    /\ out[1][3].seq = 2
    /\ out[1][3].bytes[1][2][2][1] = "tone"
    /\ out[1][3].bytes[1][2][2][3] = 400000

\* C7: parsing a command other than 0x01 and 0x02 changes neither the tuning
\* state nor the jammer state nor the client list, and the session goes on
\* parsing.
C7_OtherCommandsInert ==
    [][
        (ncmd' = ncmd + 1 /\ lastcmd'[1] \notin {1, 2}) =>
            /\ UNCHANGED mixerVars
            /\ clients' = clients
            /\ \A c \in Conns : sess[c] = "cmd" => sess'[c] = "cmd"
    ]_vars

\* Two commands were parsed, neither a retune (the tuning is as constructed),
\* the last one unknown, with the phase counter advanced and kept.
C7_Witness ==
    /\ ncmd = 2
    /\ lastcmd[1] = 9
    /\ current_freq = DEFAULT_FREQ /\ sample_rate = SAMPLE_RATE
    /\ sample_counter > 0
    /\ sess[1] = "cmd"

\* C8: for a file of N samples and a chunk size c <= N, the call that is the
\* ceil(N/c)-th in a row since a call at offset 0 leaves the offset at 0, and
\* the call after it starts at offset 0 and returns a chunk that begins with
\* sample 0 of the file.
C8_LoopAfterCeil ==
    (call.op = "chunk" /\ call.n <= Len(samples)) =>
        /\ call.k = Ceil(Len(samples), call.n) => position = 0
        /\ call.prevk = Ceil(Len(samples), call.n) =>
              /\ call.pos = 0
              /\ Len(chunk) >= 1
              /\ chunk[1] = samples[1]

\* A 4-sample file read 3 samples at a time: the third call follows the two
\* that covered the file and starts again at sample 0.
C8_Witness ==
    /\ call.op = "chunk" /\ call.n = 3 /\ Len(samples) = 4
    /\ call.prevk = 2
    /\ call.pos = 0
    /\ chunk = <<40, 41, 42>>

\* C9 as claimed: while playing, chunk(n) returns exactly n samples,
\* continuing from offset 0 when the end of the file falls inside the
\* request.
C9_ExactlyN ==
    call.op = "chunk" =>
        /\ Len(chunk) = call.n
        /\ \A i \in 1..Len(chunk) :
              chunk[i] = samples[((call.pos + i - 1) % Len(samples)) + 1]

\* C9 as amended: while playing, chunk(n) returns the samples from the
\* current offset up to offset + n or the end of the file, whichever comes
\* first, and never continues from offset 0 within the call; when the
\* request reaches the end of the file the offset becomes 0, otherwise it
\* advances by n.
C9_TruncatedAtEnd ==
    call.op = "chunk" =>
        /\ Len(chunk) = Max(0, Min(call.n, Len(samples) - call.pos))
        /\ \A i \in 1..Len(chunk) : chunk[i] = samples[call.pos + i]
        /\ position = IF call.pos + call.n >= Len(samples)
                      THEN 0 ELSE call.pos + call.n

\* The end of the file fell inside the request: fewer samples than asked
\* for were returned and the offset went back to 0.
C9_Witness ==
    /\ call.op = "chunk"
    /\ call.pos > 0 /\ call.pos < Len(samples)
    /\ call.pos + call.n > Len(samples)
    /\ Len(chunk) = Len(samples) - call.pos
    /\ Len(chunk) < call.n
    /\ position = 0

\* C10: whenever a buffer is loaded the read offset lies in [0, total).
C10_OffsetInRange ==
    samples /= None => (0 <= position /\ position < Len(samples))

\* C11: while paused a chunk call returns none and leaves the player as it
\* is, and neither pause nor play moves the read offset or replaces the
\* buffer: playback resumes at the sample where it was paused.
C11_PauseHoldsOffset ==
    [][
        /\ (paused /\ \E n \in 1..MaxChunk : ApiChunk(n)) =>
              /\ chunk' = None
              /\ call'.op = "chunk_none"
              /\ UNCHANGED playerVars
        /\ ApiPause => (position' = position /\ samples' = samples)
        /\ ApiPlay => (position' = position /\ samples' = samples)
        /\ (running /\ ~paused /\ samples /= None /\ position < Len(samples)
            /\ \E n \in 1..MaxChunk : ApiChunk(n)) =>
              /\ call'.pos = position
              /\ chunk'[1] = samples[position + 1]
    ]_vars

\* A chunk call made while paused in the middle of the file returned none
\* and the offset is still in the middle of the file.
C11_Witness ==
    /\ paused /\ running
    /\ position > 0 /\ position < Len(samples)
    /\ call.op = "chunk_none"
    /\ chunk = None

\* C12: a switch to an existing file leaves the new file's samples in the
\* buffer, the offset at 0 and playback stopped; while stopped the offset is
\* 0 and a chunk call returns none and changes nothing; play from the stopped
\* state keeps buffer and offset, and the chunk call that follows begins at
\* sample 0 of the buffer.
C12_SwitchStops ==
    [][
        /\ \A p \in 1..MaxLen :
              ApiSwitch(p) =>
                  /\ samples' = FileData(p)
                  /\ position' = 0
                  /\ ~running'
        /\ ~running => position = 0
        /\ (~running /\ \E n \in 1..MaxChunk : ApiChunk(n)) =>
              /\ chunk' = None
              /\ UNCHANGED playerVars
        /\ (~running /\ ApiPlay) =>
              /\ running' /\ ~paused'
              /\ position' = 0
              /\ samples' = samples
        /\ (running /\ ~paused /\ position = 0 /\ samples /= None
            /\ \E n \in 1..MaxChunk : ApiChunk(n)) =>
              /\ call'.op = "chunk"
              /\ call'.pos = 0
              /\ chunk'[1] = samples[1]
    ]_vars

\* A switch made in the middle of a paused playback: the player is stopped
\* at offset 0 with the 2-sample file in its buffer.
C12_Witness ==
    /\ call.op = "switch"
    /\ paused /\ ~running
    /\ file_path = 2 /\ samples = FileData(2)
    /\ position = 0

\* C13: when the stream loop is about to generate the first chunk read
\* after a file swap made over the control bus, with a phase-carrying jammer
\* enabled and in the passband, the jammer's sample counter is 0.
C13_SwapResetsPhase ==
    (/\ pc = "pace" /\ swap = "read"
     /\ jamming_enabled /\ jamming_type \in PhaseKinds
     /\ is_in_bandwidth(MixerState)) =>
        sample_counter = 0

\* C14: after a chunk is mixed with the jammer enabled and of a kind other
\* than barrage, whatever the amplitude: if |fj - fc| >= fs/2 every jammer
\* sample is zero and the chunk returned is the clean chunk; if
\* |fj - fc| < fs/2 and the amplitude is positive the jammer is in the chunk.
C14_PassbandGating ==
    (call.op = "mix" /\ jamming_enabled /\ jamming_type /= "barrage") =>
        /\ Len(mixed) = Len(chunk)
        /\ IF 2 * Abs(jamming_frequency - current_freq) >= sample_rate
           THEN \A i \in 1..Len(mixed) :
                    mixed[i] = <<chunk[i], <<"zero", 0, 0, 0, 0, 0>> >>
           ELSE jamming_power > 0 =>
                    \E i \in 1..Len(mixed) :
                        /\ mixed[i][1] = chunk[i]
                        /\ mixed[i][2][1] /= "zero"
                        /\ mixed[i][2][2] = jamming_power

\* A spot jammer at full amplitude exactly fs/2 above the centre: the chunk
\* came back clean.
C14_Witness ==
    /\ call.op = "mix" /\ call.n = 2
    /\ jamming_enabled /\ jamming_type = "spot" /\ jamming_power = 10
    /\ jamming_frequency - current_freq = 512000
    /\ sample_rate = 1024000
    /\ mixed = << <<1, <<"zero", 0, 0, 0, 0, 0>> >>,
                  <<2, <<"zero", 0, 0, 0, 0, 0>> >> >>

\* C15: a step that changes the waveform kind, the target frequency, the
\* centre frequency or the sample rate leaves the sample counter at 0.
C15_ChangeResetsCounter ==
    [][
        (\/ jamming_type' /= jamming_type
         \/ jamming_frequency' /= jamming_frequency
         \/ current_freq' /= current_freq
         \/ sample_rate' /= sample_rate) =>
            sample_counter' = 0
    ]_vars

\* The kind was changed to sweep when the counter had advanced, and the
\* counter is 0.
C15_Witness ==
    /\ call.op = "set_jamming_type"
    /\ call.pos > 0
    /\ jamming_type = "sweep"
    /\ sample_counter = 0

\* C16: for every kind, after a jammer chunk of n samples was emitted
\* (jammer enabled, and in the passband unless barrage) the sample counter
\* is n more than it was before.
C16_CounterAdvances ==
    (/\ call.op = "mix" /\ jamming_enabled
     /\ (jamming_type = "barrage" \/ is_in_bandwidth(MixerState))) =>
        sample_counter = call.pos + call.n

\* C17: a spot chunk of n2 samples mixed right after a spot chunk of n1
\* samples that started at counter k, with the jammer enabled, in the
\* passband and of positive amplitude: the first used the sample indices
\* k..k+n1-1, the second uses k+n1..k+n1+n2-1, and the two jammer chunks
\* one after the other are the single tone over k..k+n1+n2-1.
C17_SpotContinuity ==
    [][
        (/\ call.op = "mix"
         /\ jamming_enabled /\ jamming_type = "spot" /\ jamming_power > 0
         /\ 2 * Abs(jamming_frequency - current_freq) < sample_rate
         /\ \E n \in 1..MaxMix : MixerMix(n)) =>
            LET k == call.pos
                n1 == call.n
                n2 == call'.n
                both == [i \in 1..Len(mixed) |-> mixed[i][2]]
                            \o [i \in 1..Len(mixed') |-> mixed'[i][2]]
            IN  /\ Len(mixed) = n1 /\ Len(mixed') = n2
                /\ call'.pos = k + n1
                /\ sample_counter' = k + n1 + n2
                /\ \A i \in 1..n1 : mixed[i][2][5] = k + i - 1
                /\ \A j \in 1..n2 : mixed'[j][2][5] = k + n1 + j - 1
                /\ both = [i \in 1..(n1 + n2) |->
                             <<"tone", jamming_power,
                               jamming_frequency - current_freq,
                               sample_rate, k + i - 1, 0>>]
    ]_vars

\* The second of two spot chunks of two samples each: it started at counter
\* 2 and its samples are the tone at the indices 2 and 3.
C17_Witness ==
    /\ call.op = "mix" /\ call.n = 2 /\ call.pos = 2
    /\ jamming_enabled /\ jamming_type = "spot" /\ jamming_power > 0
    /\ sample_counter = 4
    /\ Len(mixed) = 2
    /\ mixed[1][2][1] = "tone" /\ mixed[1][2][5] = 2
    /\ mixed[2][2][1] = "tone" /\ mixed[2][2][5] = 3

\* C18: a call of the amplitude setter that changes the amplitude leaves the
\* sample counter at 0.
C18_PowerResetsCounter ==
    [][
        ((\E p \in Powers : MixerSetPower(p))
         /\ jamming_power' /= jamming_power) =>
            sample_counter' = 0
    ]_vars

\* C19: the amplitude setter called with a negative input leaves the stored
\* amplitude as it was; called with a non-negative input it stores the input
\* clamped to [0, 1] (in tenths, [0, 10]).
C19_PowerRejectsNegative ==
    [][
        \A p \in Powers :
            MixerSetPower(p) =>
                IF p < 0
                THEN jamming_power' = jamming_power
                ELSE jamming_power' = (IF p > 10 THEN 10 ELSE p)
    ]_vars

\* C20: a set-kind control command whose kind is not one of the six valid
\* kinds leaves the kind, the enabled flag, the amplitude, the target
\* frequency and the phase counter of the jammer as they were.
C20_InvalidKindRejected ==
    [][
        (\E t \in CtlKinds \ VALID_TYPES : Mqtt("set_jam_type", t)) =>
            UNCHANGED <<jamming_type, jamming_enabled, jamming_power,
                        jamming_frequency, sample_counter>>
    ]_vars

\* C21: the wire command 0x02 with parameter 0 is rejected: parsing it
\* leaves the tuned sample rate and the jammer's phase counter as they were,
\* and the tuned sample rate stays positive.
C21_ZeroRateRejected ==
    [][
        (ncmd' = ncmd + 1 /\ lastcmd' = <<2, 0>>) =>
            /\ sample_rate' = sample_rate
            /\ sample_counter' = sample_counter
            /\ sample_rate' > 0
    ]_vars

\* C22: handling a control command of the specification's list (play,
\* pause, stop, enable, disable, set kind, set amplitude, set target
\* frequency, switch source), with a valid parameter, calls exactly one
\* mutator of the player or the mixer and publishes the status exactly once.
C22_OneMutationOnePublish ==
    [][
        /\ \A command \in {"play", "stop", "disable_jamming"} :
              Mqtt(command, 0) =>
                 LET r == handle_command(PlayerState, MixerState, command, 0)
                 IN  Len(r.calls) = 1 /\ r.pubs = 1
        /\ \A p \in SwapPaths :
              Mqtt("switch_iq", p) =>
                 LET r == handle_command(PlayerState, MixerState, "switch_iq", p)
                 IN  Len(r.calls) = 1 /\ r.pubs = 1
        /\ \A f \in JamFreqs :
              Mqtt("set_jam_frequency", f) =>
                 LET r == handle_command(PlayerState, MixerState,
                                         "set_jam_frequency", f)
                 IN  Len(r.calls) = 1 /\ r.pubs = 1
        /\ \A t \in CtlKinds \cap VALID_TYPES :
              Mqtt("set_jam_type", t) =>
                 LET r == handle_command(PlayerState, MixerState,
                                         "set_jam_type", t)
                 IN  Len(r.calls) = 1 /\ r.pubs = 1
    ]_vars

\* C23: once a chunk has been mixed with the jammer enabled, the chunk is
\* the one the mixer state at the start of the call produces, whatever the
\* control plane changed during the call; and if a setter reset the sample
\* counter during the call, the counter is 0 after the call (the reset is
\* not overwritten by the call's own update of the counter).
C23_ChunkIsolated ==
    (gen.step = "idle" /\ gen.n > 0 /\ gen.m0.jamming_enabled) =>
        /\ \E r \in mix_signals(gen.m0, chunk) : mixed = r.out
        /\ gen.hit => sample_counter = 0

\* C24: a component v in [-1, 1], quantized to a byte by the server and
\* dequantized by the client, comes back within 1/127.5 of v; a component
\* outside [-1, 1] is quantized as the nearer end of the range (byte 0 or
\* 255), and every byte is in 0..255.
C24_QuantRoundTrip ==
    \A k \in 1..2 :
        LET v == input[k]
        IN  /\ fn = "quantized" =>
                /\ output[k] \in 0..255
                /\ (v >= Scale => output[k] = 255)
                /\ (v <= -Scale => output[k] = 0)
            /\ fn = "dequantized" =>
                \* |clip(v)/Scale - output/255| <= 2/255
                Abs(255 * clip(v) - Scale * output[k]) <= 2 * Scale
C24_Witness ==
    /\ fn = "dequantized"
    /\ input[1] > Scale
    /\ input[2] \in (-Scale) .. Scale
    /\ 255 * input[2] /= Scale * output[2]

\* C25: every ship report the AIS decoder emits comes from a candidate frame
\* that passes the CRC-16-CCITT verification.
C25_AcceptOnlyCrcPassing ==
    \A i \in 1..Len(messages) : verify_ais_crc(messages[i].packet)

\* C26: a frame made of data bits followed by their CRC-16-CCITT (polynomial
\* 0x1021, initial value 0xFFFF, most significant bit first) passes
\* verify_ais_crc, and the same frame with any one bit inverted fails it.
C26_CrcDetectsSingleFlip ==
    fn \notin {"framed_bad", "flipped_ok"}
C26_Witness ==
    /\ fn = "flipped_bad"
    /\ Len(input) = MaxBits
    /\ SubSeq(output, 1, Len(input)) /= input

\* C27 as stated: for every bit sequence and every encoder seed, nrzi_decode
\* of the NRZI encoding of the sequence is the sequence.
C27_NrziRoundTripAnySeed ==
    fn \in {"decoded_seed0", "decoded_seed1"} => output = input

\* C27 amended: nrzi_decode of the NRZI encoding started from line level 0 is
\* the sequence; started from line level 1 it is the sequence with its first
\* bit inverted.
C27_NrziRoundTrip ==
    /\ fn = "decoded_seed0" => output = input
    /\ fn = "decoded_seed1" => output = Flip(input, {1})
C27_Witness ==
    /\ fn = "decoded_seed1"
    /\ Len(input) = MaxBits
    /\ \E i, j \in 1..Len(input) : input[i] /= input[j]

\* C28: remove_bit_stuffing applied to the stuffed form of a bit sequence (a 0
\* inserted after every five consecutive 1s) gives the sequence back.
C28_DestuffInverse ==
    fn = "destuffed" => output = input
C28_Witness ==
    /\ fn = "destuffed"
    /\ Len(stuff(input)) > Len(input)
    /\ \E i \in 1..Len(input) : input[i] = 0

\* C29: whatever the pieces in which a bit stream reaches _decode_ais_audio,
\* the bits it has put in the bit buffer are those that NRZI decoding and
\* destuffing of the whole stream in one call give (streams too short for
\* the frame hunt to consume anything).
C29_SplitEquivalence ==
    fn = "fed" /\ Len(output) < MIN_BUFFER =>
        bit_buffer = remove_bit_stuffing(nrzi_decode(output))

\* The SSTV decode context is within the image and no write has failed.
C30_Bounds ==
    /\ decode_state /= "FAILED"
    /\ \A i \in 1..Len(events) : events[i].type /= "error"
    /\ current_image /= None =>
        /\ current_col \in 0..(MARTIN_M1_WIDTH - 1)
        /\ current_line \in 0..MARTIN_M1_HEIGHT
        /\ DOMAIN current_image = 0..(MARTIN_M1_HEIGHT - 1)
\* What one decoding step over p pixels sends and leaves behind.
C30_Step ==
    \A len_audio \in 1..MaxAudio, freq \in Tones :
        decode_state = "DECODING"
        /\ SstvChunk(len_audio, FALSE, FALSE, freq) =>
            LET p == len_audio \div SamplesPerPixel
                missing == (MARTIN_M1_HEIGHT - current_line) * MARTIN_M1_WIDTH
                           - current_col
                IsScan(e) == e.type = "scan_line"
                IsDone(e) == e.type = "image_complete"
                scan == SelectSeq(events', IsScan)
                complete == p > missing
            IN  /\ \A i \in 1..Len(scan) :
                       /\ scan[i].line_number = current_line + i - 1
                       /\ scan[i].line_number < MARTIN_M1_HEIGHT
                /\ Len(SelectSeq(events', IsDone)) = IF complete THEN 1 ELSE 0
                /\ Len(events') = Len(scan) + (IF complete THEN 1 ELSE 0)
                /\ IF complete
                   THEN /\ IsDone(Last(events'))
                        /\ Len(scan) = (missing + current_col) \div MARTIN_M1_WIDTH
                        /\ decode_state' = "WAITING_FOR_SYNC"
                        /\ current_image' = BlankImage
                        /\ current_line' = 0
                        /\ current_col' = 0
                   ELSE /\ Len(scan) = (current_col + p) \div MARTIN_M1_WIDTH
                        /\ current_line' = current_line + Len(scan)
                        /\ current_col' = (current_col + p) % MARTIN_M1_WIDTH
                        /\ decode_state' = "DECODING"

\* C30: in every state of the SSTV decoder 0 <= column < width and
\* 0 <= line <= height, and it has never written outside the image (which
\* would end the decode loop with an error).  A decoding step over p pixels
\* sends one scan-line event per completed line, numbered from the current
\* line upwards and below height, and advances line and column accordingly;
\* when a pixel is taken up with line at height (p exceeds the pixels missing
\* to the end of the image) it sends the complete-image event last, starts a
\* blank image at line 0, column 0 and goes to WAITING_FOR_SYNC.
C30_SstvContext == []C30_Bounds /\ [][C30_Step]_vars
C30_Witness ==
    /\ decode_state = "WAITING_FOR_SYNC"
    /\ Len(events) >= 2
    /\ Last(events).type = "image_complete"
    /\ events[1] = Event("scan_line", MARTIN_M1_HEIGHT - 1)

\* A chunk of len_audio samples in which no VIS code is found, fed to a
\* decoder that is waiting for the VIS code.
C31_NoVisChunk(len_audio) ==
    /\ decode_state = "WAITING_FOR_VIS"
    /\ \E sync \in BOOLEAN, freq \in Tones :
           SstvChunk(len_audio, FALSE, sync, freq)

\* C31: a decoder in WAITING_FOR_VIS never has more than 5 s of waiting
\* behind it; a chunk without a VIS code that takes the accumulated audio
\* beyond 5 s moves it to DECODING with exactly one status notification, and
\* a chunk without a VIS code that does not leaves it in WAITING_FOR_VIS
\* with nothing sent.
C31_VisTimeout ==
    /\ [](decode_state = "WAITING_FOR_VIS" =>
              vis_wait_time <= 5 * AUDIO_RATE)
    /\ [][\A len_audio \in 1..MaxAudio :
              C31_NoVisChunk(len_audio) =>
                  IF vis_wait_time + len_audio > 5 * AUDIO_RATE
                  THEN /\ decode_state' = "DECODING"
                       /\ events' = <<Event("status", -1)>>
                  ELSE /\ decode_state' = "WAITING_FOR_VIS"
                       /\ events' = <<>>]_vars

C31_Witness ==
    /\ decode_state = "DECODING"
    /\ vis_wait_time > 5 * AUDIO_RATE
    /\ events = <<Event("status", -1)>>
    /\ audio_buffer > 0

\* A chunk of len_audio samples with which decode_vis_code is called and
\* answers a mode, fed to a decoder that is waiting for the VIS code.
C32_VisMatch(len_audio) ==
    /\ decode_state = "WAITING_FOR_VIS"
    /\ audio_buffer + len_audio > 2 * AUDIO_RATE
    /\ \E sync \in BOOLEAN, freq \in Tones :
           SstvChunk(len_audio, TRUE, sync, freq)

\* A chunk of len_audio samples with which detect_sync_pulse is called and
\* answers true, fed to a decoder that is waiting for the sync pulse.
C32_SyncPulse(len_audio) ==
    /\ decode_state = "WAITING_FOR_SYNC"
    /\ 2 * (audio_buffer + len_audio) > AUDIO_RATE
    /\ \E vis \in BOOLEAN, freq \in Tones :
           SstvChunk(len_audio, vis, TRUE, freq)

\* C32: a chunk in which a VIS code is matched in WAITING_FOR_VIS leaves the
\* decoder in WAITING_FOR_SYNC, never in DECODING, and a step from
\* WAITING_FOR_SYNC to DECODING is a chunk in which the 1200 Hz sync pulse
\* is detected.
C32_VisMatchGoesToSync ==
    /\ [][\A len_audio \in 1..MaxAudio :
              C32_VisMatch(len_audio) =>
                  decode_state' = "WAITING_FOR_SYNC"]_vars
    /\ [][(decode_state = "WAITING_FOR_SYNC" /\ decode_state' = "DECODING") =>
              \E len_audio \in 1..MaxAudio : C32_SyncPulse(len_audio)]_vars

\* The second half of C32 alone.
C32_DecodingFromSyncOnPulse ==
    [][(decode_state = "WAITING_FOR_SYNC" /\ decode_state' = "DECODING") =>
           \E len_audio \in 1..MaxAudio : C32_SyncPulse(len_audio)]_vars

\* C33: a chunk that holds the tone f and is decoded in DECODING without
\* completing the image writes at the current line and column the grey value
\* clip((f - 1500) / 800 * 255, 0, 255) of the tone detected in the pixel's
\* own samples_per_pixel samples: 0 for 1500 Hz, 255 for 2300 Hz.
C33_PixelFromTone ==
    [][\A len_audio \in SamplesPerPixel..MaxAudio, tone \in PixelTones :
           (/\ decode_state = "DECODING"
            /\ decode_state' = "DECODING"
            /\ \E vis \in BOOLEAN, sync \in BOOLEAN :
                   SstvFeed(len_audio, vis, sync, tone))
           => /\ current_image'[current_line][current_col] = GrayValue(tone)
              /\ tone = 1500 => current_image'[current_line][current_col] = 0
              /\ tone = 2300 => current_image'[current_line][current_col] = 255
      ]_vars

\* The BER table with inclusive lower bounds, in units of 1e-5, for an SNR
\* in steps of 1 / SnrSteps dB.
C34_Table(snr) ==
    IF snr >= 15 * SnrSteps THEN 1
    ELSE IF snr >= 12 * SnrSteps THEN 10
    ELSE IF snr >= 10 * SnrSteps THEN 100
    ELSE IF snr >= 8 * SnrSteps THEN 1000
    ELSE IF snr >= 6 * SnrSteps THEN 5000
    ELSE IF snr >= 4 * SnrSteps THEN 15000
    ELSE IF snr >= 2 * SnrSteps THEN 30000
    ELSE IF snr >= 0 THEN 40000
    ELSE 50000

\* C34: the BER in a metrics message is the entry of the table with
\* inclusive lower bounds for the message's SNR (15 dB and above gives 1e-5,
\* ... below 0 dB gives 0.50), and the BER never increases with the SNR.
C34_BerTable ==
    /\ metrics /= None => metrics[2] = C34_Table(metrics[1])
    /\ \A a \in SnrValues, b \in SnrValues : a <= b => ber_of(a) >= ber_of(b)

\* The second half of C34 alone, on the BER of the chunks analysed.
C34_BerNonIncreasing ==
    metrics /= None =>
        \A a \in SnrValues :
            /\ a <= metrics[1] => ber_of(a) >= metrics[2]
            /\ a >= metrics[1] => ber_of(a) <= metrics[2]

\* C35: after a failed chunk read the analyzer sleeps RECONNECT_DELAY = 1
\* second before every reconnect, and while its stop flag is unset a wait is
\* followed by the main loop (the reconnect succeeded) or by another wait,
\* never by the end of the analysis; a reconnect made while the server
\* accepts connections puts it back in the main loop, connected.
C35_KeepsRetrying ==
    /\ [][AnalyzeReconnect => backoff' = 1]_vars
    /\ [][(an_pc = "backoff" /\ an_running /\ an_running') =>
              an_pc' \in {"backoff", "loop"}]_vars
    /\ [][(AnalyzeReconnect /\ server_up) =>
              (an_pc' = "loop" /\ connected')]_vars

\* The parts of C35 about the wait and about a server that accepts.
C35_ReconnectAfterOneSecond ==
    /\ [][AnalyzeReconnect => backoff' = 1]_vars
    /\ [][(AnalyzeReconnect /\ server_up) =>
              (an_pc' = "loop" /\ connected')]_vars

\* C36: whenever no chunk call is in progress and the player is stopped (a
\* stop or a switch has completed and no play has followed), the read offset
\* is 0 and lies within the loaded buffer, whatever the interleaving of the
\* stop or switch with the chunk call was.
C36_OffsetResetSurvives ==
    (gc.step = "idle" /\ ~running) =>
        /\ position = 0
        /\ samples /= None => position < Len(samples)

\* C37: a switch to a missing file, made on a player whose file path names
\* the file its samples were read from, leaves the player stopped and the
\* file path (the "file" of the status snapshot) still naming the file whose
\* samples are in the buffer.
C37_MissingSwitchConsistent ==
    [][(/\ samples /= None
        /\ PathExists(file_path)
        /\ samples = FileData(file_path)
        /\ ApiSwitch(MissingPath))
       => /\ ~running'
          /\ samples' /= None
          /\ PathExists(file_path')
          /\ samples' = FileData(file_path')]_vars

\* The part of C37 about playback: any switch leaves the player stopped at
\* offset 0.
C37_SwitchStops ==
    [][\A p \in Paths : ApiSwitch(p) => (~running' /\ position' = 0)]_vars

\* C38: in every state reached by play, pause, stop, switch and chunk calls
\* the paused flag is set only while the running flag is set.
C38_PausedOnlyWhileRunning ==
    paused => running

\* C39: an iteration of process's loop that goes on looping never leaves the
\* loop state (i, mu, omega, last_sample, mid_sample) as it found it: the
\* loop is deterministic in that state and the samples, so an iteration that
\* returns to the same state repeats forever.
C39_LoopMakesProgress ==
    [][(ProcessIter /\ fn' = "process") => clock' /= clock]_vars

\* The part of the decoder's state that decides what a chunk does in
\* DECODING; the audio buffer is not read there.
C40_DecodingState ==
    <<decode_state, current_line, current_col, current_image, vis_wait_time>>

\* The sliding windows of the waiting states: after a chunk the buffer holds
\* at most 4 s of audio in WAITING_FOR_VIS, and once a chunk has been handled
\* in WAITING_FOR_SYNC at most 1 s.
C40_WaitingWindows ==
    /\ [](decode_state = "WAITING_FOR_VIS" => audio_buffer <= 4 * AUDIO_RATE)
    /\ [][(decode_state = "WAITING_FOR_SYNC" /\
           decode_state' = "WAITING_FOR_SYNC") =>
              audio_buffer' <= AUDIO_RATE]_vars

\* C40: the audio buffer's length stays below a fixed number of seconds
\* after any number of chunks: the windows of the waiting states hold, and
\* in DECODING, where nothing depends on the buffer's length, no chunk
\* lengthens the buffer and leaves the rest of the decoder as it was (such a
\* chunk can be fed again without end).
C40_BufferBounded ==
    /\ C40_WaitingWindows
    /\ [][(/\ decode_state = "DECODING"
           /\ \E len_audio \in 1..MaxAudio, tone \in PixelTones :
                  SstvFeed(len_audio, FALSE, FALSE, tone))
          => ~(/\ audio_buffer' > audio_buffer
               /\ C40_DecodingState' = C40_DecodingState)]_vars

====
